---------------------------- MODULE Spec2Model ----------------------------
(***************************************************************************)
(* The idea-improvement route (app/api/improve/route.ts): the pure engine  *)
(* improveIdea and the POST handler that wraps it with request validation, *)
(* a per-caller rate limiter and a response cache.                         *)
(*                                                                         *)
(* Texts are sequences of UTF-16 code units.  A code unit is written as a  *)
(* one-character string for ASCII and as the upper-case name of the letter *)
(* for Arabic ("MEEM", "TEH_MARBUTA", ...), since module strings are ASCII.*)
(* An Arabic output string of the translation tables is written "ar:" plus *)
(* its English key.                                                        *)
(***************************************************************************)
EXTENDS Integers, Sequences, FiniteSets, TLC

(***************************************************************************)
(* Strings                                                                 *)
(***************************************************************************)

\* The code units of an ASCII string literal.
Chars(s) == [i \in 1..Len(s) |-> SubSeq(s, i, i)]

\* The characters \s matches and trim() removes (those of the modelled texts).
IsSpace(c) == c \in {" ", "\t", "\n"}

\* The characters \w matches: ASCII letters, digits and underscore.
IsWordChar(c) ==
  c \in {"a","b","c","d","e","f","g","h","i","j","k","l","m","n","o","p","q",
         "r","s","t","u","v","w","x","y","z",
         "A","B","C","D","E","F","G","H","I","J","K","L","M","N","O","P","Q",
         "R","S","T","U","V","W","X","Y","Z",
         "0","1","2","3","4","5","6","7","8","9","_"}

UpperToLower ==
  [ A |-> "a", B |-> "b", C |-> "c", D |-> "d", E |-> "e", F |-> "f", G |-> "g",
    H |-> "h", I |-> "i", J |-> "j", K |-> "k", L |-> "l", M |-> "m", N |-> "n",
    O |-> "o", P |-> "p", Q |-> "q", R |-> "r", S |-> "s", T |-> "t", U |-> "u",
    V |-> "v", W |-> "w", X |-> "x", Y |-> "y", Z |-> "z" ]

\* String.prototype.toLowerCase: ASCII capitals are mapped, every other
\* modelled code unit (digits, punctuation, Arabic letters) is unchanged.
toLowerCase(s) ==
  [i \in 1..Len(s) |-> IF s[i] \in DOMAIN UpperToLower THEN UpperToLower[s[i]] ELSE s[i]]

\* String.prototype.trim: drops leading and trailing white space.
RECURSIVE trimStart(_)
trimStart(s) ==
  IF s # <<>> /\ IsSpace(Head(s)) THEN trimStart(Tail(s)) ELSE s

RECURSIVE trimEnd(_)
trimEnd(s) ==
  IF s # <<>> /\ IsSpace(s[Len(s)]) THEN trimEnd(SubSeq(s, 1, Len(s) - 1)) ELSE s

trim(s) == trimEnd(trimStart(s))

(***************************************************************************)
(* Regular expressions.  A pattern is the sequence of its alternatives     *)
(* (optional parts expanded); an alternative is a sequence of atoms: a     *)
(* code unit, "WS" for \s, "WS*" for a run of \s, or "WB" for \b.         *)
(***************************************************************************)

\* \b at position i (between s[i-1] and s[i]).
IsWordBoundary(s, i) ==
  LET before == i > 1 /\ IsWordChar(s[i - 1])
      after  == i <= Len(s) /\ IsWordChar(s[i])
  IN  before # after

\* Whether atoms j.. of alternative alt match s starting at position i.
RECURSIVE MatchAt(_, _, _, _)
MatchAt(alt, j, s, i) ==
  IF j > Len(alt) THEN TRUE
  ELSE IF alt[j] = "WB" THEN IsWordBoundary(s, i) /\ MatchAt(alt, j + 1, s, i)
  ELSE IF alt[j] = "WS*" THEN
         \/ MatchAt(alt, j + 1, s, i)
         \/ (i <= Len(s) /\ IsSpace(s[i]) /\ MatchAt(alt, j, s, i + 1))
  ELSE IF alt[j] = "WS" THEN
         i <= Len(s) /\ IsSpace(s[i]) /\ MatchAt(alt, j + 1, s, i + 1)
  ELSE i <= Len(s) /\ s[i] = alt[j] /\ MatchAt(alt, j + 1, s, i + 1)

\* RegExp.prototype.test on an unanchored pattern.
test(re, s) ==
  \E a \in 1..Len(re) : \E i \in 1..(Len(s) + 1) : MatchAt(re[a], 1, s, i)

\* String.prototype.includes.
includes(s, k) ==
  \E i \in 1..(Len(s) + 1) : MatchAt(k, 1, s, i)

\* audienceHints: keyword -> label, in insertion order.
audienceHints ==
  << <<Chars("designer"), "Designers">>,
     <<Chars("designers"), "Designers">>,
     <<<<"MEEM","SAD","MEEM","MEEM">>, "Designers">>,
     <<<<"MEEM","SAD","MEEM","MEEM","YEH","NOON">>, "Designers">>,
     <<Chars("developer"), "Developers">>,
     <<Chars("developers"), "Developers">>,
     <<<<"MEEM","TAH","WAW","REH">>, "Developers">>,
     <<<<"ALEF","LAM","MEEM","TAH","WAW","REH","YEH","NOON">>, "Developers">>,
     <<Chars("student"), "Students">>,
     <<Chars("students"), "Students">>,
     <<<<"TAH","ALEF","LAM","BEH">>, "Students">>,
     <<<<"TAH","LAM","ALEF","BEH">>, "Students">>,
     <<Chars("photographer"), "Photographers">>,
     <<Chars("photographers"), "Photographers">>,
     <<<<"MEEM","SAD","WAW","REH">>, "Photographers">>,
     <<<<"ALEF","LAM","MEEM","SAD","WAW","REH","YEH","NOON">>, "Photographers">>,
     <<Chars("restaurant"), "Local diners and food lovers">>,
     <<Chars("restaurants"), "Local diners and food lovers">>,
     <<<<"MEEM","TAH","AIN","MEEM">>, "Local diners and food lovers">>,
     <<<<"MEEM","TAH","ALEF","AIN","MEEM">>, "Local diners and food lovers">>,
     <<Chars("nonprofit"), "Donors and volunteers">>,
     <<Chars("nonprofits"), "Donors and volunteers">>,
     <<<<"JEEM","MEEM","AIN","YEH","TEH_MARBUTA">>, "Donors and volunteers">>,
     <<<<"JEEM","MEEM","AIN","YEH","ALEF","TEH">>, "Donors and volunteers">>,
     <<Chars("startup"), "Early adopters and investors">>,
     <<Chars("startups"), "Early adopters and investors">>,
     <<<<"NOON","ALEF","SHEEN","YEH_HAMZA_ABOVE","TEH_MARBUTA">>, "Early adopters and investors">>,
     <<<<"SEEN","TEH","ALEF","REH","TEH"," ","ALEF","BEH">>, "Early adopters and investors">>,
     <<Chars("ecommerce"), "Online shoppers">>,
     <<Chars("shop"), "Online shoppers">>,
     <<Chars("shoppers"), "Online shoppers">>,
     <<<<"MEEM","TEH","JEEM","REH">>, "Online shoppers">>,
     <<<<"MEEM","TEH","SEEN","WAW","QAF","YEH","NOON">>, "Online shoppers">>,
     <<Chars("parents"), "Parents">>,
     <<<<"ALEF_HAMZA_ABOVE","WAW","LAM","YEH","ALEF","HAMZA"," ","ALEF","LAM","ALEF_HAMZA_ABOVE","MEEM","WAW","REH">>, "Parents">>,
     <<Chars("teachers"), "Teachers">>,
     <<<<"MEEM","AIN","LAM","MEEM","YEH","NOON">>, "Teachers">>,
     <<Chars("fitness"), "Fitness enthusiasts">>,
     <<<<"LAM","YEH","ALEF","QAF","TEH_MARBUTA">>, "Fitness enthusiasts">>,
     <<Chars("realty"), "Home buyers and sellers">>,
     <<Chars("realestate"), "Home buyers and sellers">>,
     <<Chars("realtor"), "Home buyers and sellers">>,
     <<<<"AIN","QAF","ALEF","REH","ALEF","TEH">>, "Home buyers and sellers">>,
     <<Chars("b2b"), "Business decision-makers">>,
     <<Chars("small"), "Small business owners">>,
     <<<<"MEEM","SHEEN","REH","WAW","AIN"," ","SAD","GHAIN","YEH","REH">>, "Small business owners">> >>

\* The category patterns of the siteType chain, in test order.
sitePatterns ==
  << <<<< Chars("saas"), Chars("subscription"), Chars("b2b"), Chars("b2c"),
          <<"SEEN","WAW","FEH","TEH","WAW","YEH","REH">>,
          <<"SEEN","WAW","FEH","TEH","WS","WAW","YEH","REH">>,
          <<"KHAH","DAL","MEEM","TEH_MARBUTA","SEEN","HAH","ALEF","BEH","YEH","TEH_MARBUTA">>,
          <<"KHAH","DAL","MEEM","TEH_MARBUTA","WS","SEEN","HAH","ALEF","BEH","YEH","TEH_MARBUTA">> >>,
       "saas">>,
     <<<< Chars("shop"), Chars("store"), Chars("ecommerce"), Chars("checkout"),
          Chars("cart"), Chars("sell"), Chars("buy"), Chars("product"),
          <<"MEEM","TEH","JEEM","REH">>, <<"SEEN","LAM","TEH_MARBUTA">>,
          <<"AIN","REH","BEH","TEH_MARBUTA">>, <<"SHEEN","REH","ALEF","HAMZA">>,
          <<"BEH","YEH","AIN">>, <<"MEEM","NOON","TEH","JEEM">>,
          <<"ALEF","LAM","DAL","FEH","AIN">>, <<"TEH","SEEN","WAW","QAF">> >>,
       "ecommerce">>,
     <<<< Chars("portfolio"), Chars("case study"), Chars("case studies"), Chars("work"),
          Chars("dribbble"), Chars("behance"), Chars("photograph"),
          <<"ALEF_HAMZA_ABOVE","AIN","MEEM","ALEF","LAM">>, <<"MEEM","AIN","REH","DAD">>,
          <<"ALEF","AIN","MEEM","ALEF","LAM","YEH">>, <<"SEEN","YEH","REH","TEH_MARBUTA">> >>,
       "portfolio">>,
     <<<< Chars("restaurant"), Chars("cafe"), Chars("menu"), Chars("reservation"),
          Chars("reservations"), Chars("booking"), <<"MEEM","TAH","AIN","MEEM">>,
          <<"QAF","ALEF","YEH_HAMZA_ABOVE","MEEM","TEH_MARBUTA">>, <<"HAH","JEEM","ZAIN">>,
          <<"HAH","JEEM","WAW","ZAIN","ALEF","TEH">> >>,
       "restaurant">>,
     <<<< Chars("blog"), Chars("articles"), Chars("news"), Chars("magazine"),
          <<"p","o","s","t","WB">>, <<"MEEM","DAL","WAW","NOON","TEH_MARBUTA">>,
          <<"MEEM","QAF","ALEF","LAM","ALEF","TEH">>,
          <<"ALEF_HAMZA_ABOVE","KHAH","BEH","ALEF","REH">> >>,
       "blog">>,
     <<<< Chars("event"), Chars("conference"), Chars("meetup"), Chars("summit"),
          Chars("webinar"), Chars("launch"),
          <<"FEH","AIN","ALEF","LAM","YEH","TEH_MARBUTA">>,
          <<"MEEM","WAW_HAMZA_ABOVE","TEH","MEEM","REH">>,
          <<"NOON","DAL","WAW","TEH_MARBUTA">>, <<"QAF","MEEM","TEH_MARBUTA">>,
          <<"WAW","REH","SHEEN","TEH_MARBUTA">> >>,
       "event">>,
     <<<< Chars("book"), Chars("booking"), Chars("schedule"), Chars("calendar"),
          Chars("appointment"), <<"HAH","JEEM","ZAIN">>, <<"MEEM","WAW","AIN","DAL">>,
          <<"JEEM","DAL","WAW","LAM","TEH_MARBUTA">>, <<"TEH","QAF","WAW","YEH","MEEM">> >>,
       "booking">> >>

\* The project / planning keywords.
projectPattern ==
  << Chars("project"), <<"MEEM","SHEEN","REH","WAW","AIN">>, Chars("mvp"),
     Chars("scope"), Chars("requirement"), Chars("requirements"), Chars("spec"),
     Chars("brief"), Chars("proposal"), Chars("plan"), Chars("timeline"),
     Chars("milestone"), Chars("milestones"), Chars("deliverable"), Chars("deliverables") >>

\* The tone keyword tests, in order.
tonePatterns ==
  << <<<< Chars("playful"), <<"MEEM","REH","HAH">>, <<"MEEM","REH","KASRA","HAH">> >>,
       "playful">>,
     <<<< Chars("minimal"), <<"BEH","SEEN","YEH","TAH">>,
          <<"MEEM","BEH","SEEN","SHADDA","TAH">> >>,
       "minimal">>,
     <<<< Chars("luxury"), Chars("premium"), <<"FEH","ALEF","KHAH","REH">>,
          <<"FEH","KHAH","MEEM">> >>,
       "premium">>,
     <<<< Chars("bold"), <<"JEEM","REH","YEH","HAMZA">> >>,
       "bold">>,
     <<<< Chars("friendly"), <<"WAW","DAL","WAW","DAL">>, <<"LAM","TAH","YEH","FEH">> >>,
       "friendly">>,
     <<<< Chars("confident"), <<"WAW","ALEF","THEH","QAF">> >>,
       "confident">>,
     <<<< Chars("concise"), <<"MEEM","WAW","JEEM","ZAIN">> >>,
       "concise">> >>

\* featureMap: (pattern, feature label), in order.
featureMap ==
  << <<<< Chars("pricing"), Chars("plans"), Chars("tiers"), <<"SEEN","AIN","REH">>,
          <<"ALEF","LAM","ALEF_HAMZA_ABOVE","SEEN","AIN","ALEF","REH">>,
          <<"ALEF","LAM","KHAH","TAH","TAH">> >>,
       "Pricing with clear plan comparison">>,
     <<<< Chars("faq"), Chars("questions"),
          <<"ALEF_HAMZA_ABOVE","SEEN","YEH_HAMZA_ABOVE","LAM","TEH_MARBUTA">>,
          <<"ALEF","LAM","ALEF_HAMZA_ABOVE","SEEN","YEH_HAMZA_ABOVE","LAM","TEH_MARBUTA","WS*","ALEF","LAM","SHEEN","ALEF","YEH_HAMZA_ABOVE","AIN","TEH_MARBUTA">> >>,
       "FAQ">>,
     <<<< Chars("blog"), Chars("article"), Chars("news"),
          <<"MEEM","DAL","WAW","NOON","TEH_MARBUTA">>, <<"MEEM","QAF","ALEF","LAM">>,
          <<"ALEF_HAMZA_ABOVE","KHAH","BEH","ALEF","REH">> >>,
       "Blog">>,
     <<<< Chars("newsletter"), Chars("subscribe"), Chars("email list"),
          <<"ALEF","LAM","NOON","SHEEN","REH","TEH_MARBUTA">>,
          <<"ALEF","SHEEN","TEH","REH","KAF">>,
          <<"QAF","ALEF","YEH_HAMZA_ABOVE","MEEM","TEH_MARBUTA","WS*","BEH","REH","YEH","DAL">> >>,
       "Newsletter signup">>,
     <<<< Chars("testimonials"), Chars("reviews"), Chars("quotes"),
          <<"ALEF_MADDA_ABOVE","REH","ALEF","HAMZA">>,
          <<"TEH","QAF","YEH","YEH","MEEM","ALEF","TEH">>,
          <<"SHEEN","HEH","ALEF","DAL","ALEF","TEH">> >>,
       "Testimonials">>,
     <<<< Chars("contact"), Chars("support"), Chars("help"), <<"ALEF","TEH","SAD","LAM">>,
          <<"DAL","AIN","MEEM">>, <<"MEEM","SEEN","ALEF","AIN","DAL","TEH_MARBUTA">> >>,
       "Contact form">>,
     <<<< Chars("demo"), Chars("trial"), Chars("free trial"),
          <<"TEH","JEEM","REH","BEH","TEH_MARBUTA">>, <<"AIN","REH","DAD">> >>,
       "Free trial / demo request">>,
     <<<< Chars("login"), Chars("signup"), Chars("account"), <<"DAL","KHAH","WAW","LAM">>,
          <<"TEH","SEEN","JEEM","YEH","LAM">>, <<"HAH","SEEN","ALEF","BEH">> >>,
       "Authentication (sign up / log in)">>,
     <<<< Chars("checkout"), Chars("cart"), Chars("buy"), Chars("sell"), Chars("product"),
          <<"ALEF","LAM","DAL","FEH","AIN">>, <<"SEEN","LAM","TEH_MARBUTA">>,
          <<"SHEEN","REH","ALEF","HAMZA">>, <<"BEH","YEH","AIN">>,
          <<"MEEM","NOON","TEH","JEEM">> >>,
       "E-commerce checkout">>,
     <<<< Chars("booking"), Chars("schedule"), Chars("calendar"), Chars("appointment"),
          Chars("reservation"), <<"HAH","JEEM","ZAIN">>, <<"MEEM","WAW","AIN","DAL">>,
          <<"JEEM","DAL","WAW","LAM","TEH_MARBUTA">>, <<"TEH","QAF","WAW","YEH","MEEM">> >>,
       "Booking / scheduling">>,
     <<<< Chars("search"), <<"BEH","HAH","THEH">> >>,
       "Site search">> >>

\* industryMap: (pattern, industry label), in order.
industryMap ==
  << <<<< Chars("health"), Chars("clinic"), Chars("hospital"), Chars("medic"), Chars("pharma") >>,
       "Healthcare">>,
     <<<< Chars("fintech"), Chars("bank"), Chars("payment"), Chars("wallet"), Chars("loan"),
          Chars("finance"), Chars("insur"), Chars("insurtech") >>,
       "Fintech">>,
     <<<< Chars("education"), Chars("school"), Chars("university"), Chars("course"),
          Chars("learning"), Chars("edtech"), Chars("teacher"), Chars("student") >>,
       "Education">>,
     <<<< Chars("realestate"), <<"r","e","a","l","WS","e","s","t","a","t","e">>,
          Chars("realty"), Chars("realtor"), Chars("property") >>,
       "Real Estate">>,
     <<<< Chars("travel"), Chars("tour"), Chars("flight"), Chars("hotel"), Chars("booking"),
          Chars("trip"), Chars("tourism") >>,
       "Travel">>,
     <<<< Chars("ngo"), Chars("nonprofit"), Chars("charity"), Chars("donor"),
          Chars("volunteer") >>,
       "Nonprofit">>,
     <<<< Chars("food"), Chars("restaurant"), Chars("cafe"), Chars("menu"),
          Chars("delivery"), Chars("kitchen") >>,
       "Food & Beverage">>,
     <<<< Chars("photograph"), Chars("photo"), Chars("gallery"), Chars("camera") >>,
       "Photography">>,
     <<<< Chars("ecommerce"), Chars("shop"), Chars("store"), Chars("product"), Chars("cart"),
          Chars("checkout") >>,
       "E-commerce">>,
     <<<< Chars("saas"), Chars("software"), Chars("b2b"), Chars("b2c") >>,
       "Software">>,
     <<<< Chars("event"), Chars("conference"), Chars("webinar"), Chars("summit") >>,
       "Events">> >>

\* The pattern deciding usesArabic.
arabicPattern ==
  << Chars("arabic"), <<"AIN","REH","BEH">>, <<"AIN","REH","BEH","YEH">>, Chars("rtl"),
     <<"WB","a","r","WB">> >>

\* regionMap: (pattern, region label), in order.
regionMap ==
  << <<<< Chars("egypt"), Chars("egy"), <<"e","g","WB">>, Chars("cairo"), Chars("giza"),
          Chars("alex") >>,
       "Egypt">>,
     <<<< Chars("ksa"), Chars("saudi"), Chars("riyadh"), Chars("jedah"), Chars("jeddah"),
          <<"s","a","WB">> >>,
       "Saudi Arabia">>,
     <<<< Chars("uae"), Chars("dubai"), Chars("abudhabi"),
          <<"a","b","u","WS","d","h","a","b","i">>, <<"a","e","WB">>, Chars("emirates") >>,
       "UAE">>,
     <<<< Chars("morocco"), <<"m","a","WB">>, Chars("casablanca"), Chars("rabat") >>,
       "Morocco">>,
     <<<< Chars("tunisia"), <<"t","n","WB">>, Chars("tunis") >>,
       "Tunisia">>,
     <<<< Chars("algeria"), <<"d","z","WB">>, Chars("algiers") >>,
       "Algeria">>,
     <<<< Chars("jordan"), <<"j","o","WB">>, Chars("amman") >>,
       "Jordan">>,
     <<<< Chars("iraq"), <<"i","q","WB">>, Chars("baghdad") >>,
       "Iraq">>,
     <<<< Chars("usa"), Chars("united states"), <<"u","s","WB">>, Chars("america") >>,
       "USA">>,
     <<<< Chars("uk"), Chars("united kingdom"), Chars("london"), <<"g","b","WB">>,
          Chars("great britain") >>,
       "UK">>,
     <<<< Chars("europe"), <<"e","u","WB">> >>,
       "Europe">>,
     <<<< Chars("global"), Chars("worldwide"), Chars("international") >>,
       "Global">> >>

\* currencyHints: (pattern, currency), in priority order.
currencyHints ==
  << <<<< Chars("egp"), <<"JEEM","NOON","YEH","HEH">>, Chars("egypt"), Chars("egy") >>,
       "EGP">>,
     <<<< Chars("sar"), <<"REH","YEH","ALEF","LAM">>, Chars("ksa"), Chars("saudi") >>,
       "SAR">>,
     <<<< Chars("aed"), <<"DAL","REH","HEH","MEEM">>, Chars("uae"), Chars("dubai") >>,
       "AED">>,
     <<<< Chars("usd"), Chars("dollar"), Chars("usa"), <<"u","s","WB">> >>,
       "USD">>,
     <<<< Chars("eur"), Chars("euro") >>,
       "EUR">>,
     <<<< Chars("gbp"), Chars("pound"), Chars("uk"), Chars("sterling") >>,
       "GBP">> >>

\* The payment keywords of requiresPayments.
paymentPattern ==
  << Chars("payment"), <<"p","a","y","WB">>, Chars("checkout"), Chars("stripe"),
     Chars("paypal"), Chars("paymob"), Chars("fawry"), Chars("mada"), Chars("tabby"),
     Chars("tamara") >>

\* The compliance keyword tests, in order.
compliancePatterns ==
  << <<<< Chars("gdpr") >>,
       "GDPR">>,
     <<<< Chars("hipaa") >>,
       "HIPAA">>,
     <<<< Chars("pci") >>,
       "PCI DSS">>,
     <<<< <<"s","o","c","WS*","2">>, Chars("soc2") >>,
       "SOC 2">> >>

\* Default features by site type.
defaultFeaturesByType ==
  [ saas |-> <<"Hero with value proposition and primary CTA",
       "Feature highlights",
       "Social proof and testimonials",
       "Pricing plans",
       "FAQ",
       "Footer with legal links">>,
    ecommerce |-> <<"Featured products grid",
       "Product detail pages",
       "Cart and checkout",
       "Trust badges and reviews",
       "Newsletter signup">>,
    portfolio |-> <<"Selected work/gallery",
       "About and services",
       "Testimonials",
       "Contact form",
       "Simple blog (optional)">>,
    restaurant |-> <<"Hero with signature dish",
       "Menu",
       "Reservations / booking",
       "Location, hours, and map",
       "Photo gallery">>,
    blog |-> <<"Latest posts",
       "Categories and tags",
       "Author bio",
       "Newsletter signup",
       "Search">>,
    event |-> <<"Event overview",
       "Agenda / schedule",
       "Speakers",
       "Tickets / registration",
       "FAQ">>,
    booking |-> <<"Service overview",
       "Calendar and availability",
       "Pricing",
       "Testimonials",
       "Contact">>,
    generic |-> <<"Hero with value proposition",
       "Problem / solution",
       "Key features",
       "Social proof",
       "Primary CTA">> ]

\* Suggested sections by site type.
sectionsByType ==
  [ saas |-> <<"Hero", "Problem", "Solution", "Features", "Testimonials", "Pricing", "FAQ", "Footer">>,
    ecommerce |-> <<"Hero", "Featured Products", "Collections", "Product Detail", "Cart / Checkout", "Footer">>,
    portfolio |-> <<"Hero", "Selected Work", "About", "Services", "Testimonials", "Contact">>,
    restaurant |-> <<"Hero", "Menu", "Gallery", "Reservations", "Location & Hours", "Contact">>,
    blog |-> <<"Hero", "Latest Posts", "Categories", "Featured Post", "About", "Newsletter">>,
    event |-> <<"Hero", "About Event", "Agenda", "Speakers", "Tickets", "FAQ">>,
    booking |-> <<"Hero", "Services", "Availability", "Pricing", "Testimonials", "Contact">>,
    generic |-> <<"Hero", "Benefits", "Features", "Social Proof", "CTA">> ]

\* English label of each site type.
typeLabel ==
  [ saas |-> "SaaS marketing site",
    ecommerce |-> "E-commerce store",
    portfolio |-> "Portfolio site",
    restaurant |-> "Restaurant site",
    blog |-> "Blog / content hub",
    event |-> "Event landing page",
    booking |-> "Booking site",
    generic |-> "Landing page" ]

\* Default pages by site type.
pagesByType ==
  [ saas |-> <<"Home", "Features", "Pricing", "Docs", "Changelog", "Blog", "About", "Contact", "Login", "Sign up", "Dashboard">>,
    ecommerce |-> <<"Home", "Shop", "Collections", "Product", "Cart", "Checkout", "Account", "Orders", "Wishlist", "Support", "Blog">>,
    portfolio |-> <<"Home", "Work", "About", "Services", "Testimonials", "Contact", "Blog">>,
    restaurant |-> <<"Home", "Menu", "Reservations", "Gallery", "Location & Hours", "About", "Contact">>,
    blog |-> <<"Home", "Blog", "Post", "Categories", "About", "Contact", "Newsletter">>,
    event |-> <<"Home", "About Event", "Agenda", "Speakers", "Tickets", "FAQ", "Venue", "Contact">>,
    booking |-> <<"Home", "Services", "Availability", "Pricing", "Book", "Account", "Contact", "FAQ">>,
    generic |-> <<"Home", "About", "Features", "Pricing", "Contact", "Blog">> ]

\* User stories by site type.
userStoriesByType ==
  [ saas |-> <<"As a user, I can start a free trial", "As a user, I can manage my plan and billing", "As a user, I can reset my password", "As an admin, I can see key metrics in the dashboard">>,
    ecommerce |-> <<"As a shopper, I can browse and filter products", "As a shopper, I can add items to cart", "As a shopper, I can checkout and pay securely", "As a user, I can view my orders">>,
    portfolio |-> <<"As a client, I can view selected work", "As a client, I can contact for a quote">>,
    restaurant |-> <<"As a guest, I can view the menu", "As a guest, I can book a table", "As a guest, I can see location and hours">>,
    blog |-> <<"As a reader, I can read and search posts", "As a reader, I can subscribe to the newsletter">>,
    event |-> <<"As an attendee, I can view agenda and speakers", "As an attendee, I can buy tickets and receive confirmation">>,
    booking |-> <<"As a client, I can view availability", "As a client, I can book, reschedule, or cancel appointments">>,
    generic |-> <<>> ]

\* KPIs by site type.
kpisByType ==
  [ saas |-> <<"Signup conversion rate", "Activation rate", "Upgrade rate">>,
    ecommerce |-> <<"Add-to-cart rate", "Checkout completion rate", "Average order value">>,
    portfolio |-> <<"Contact inquiries", "Proposal acceptance rate">>,
    restaurant |-> <<"Reservation completion rate", "Menu views">>,
    blog |-> <<"Newsletter signups", "Time on page">>,
    event |-> <<"Ticket sales", "Registration conversion">>,
    booking |-> <<"Booking completion rate", "No-show rate">>,
    generic |-> <<"Primary CTA conversion">> ]

(***************************************************************************)
(* Arrays of strings                                                       *)
(***************************************************************************)

\* Array.prototype.includes.
arrIncludes(arr, x) == \E i \in 1..Len(arr) : arr[i] = x

\* Array.from(new Set(arr)): the first occurrence of each entry, in order.
RECURSIVE dedupe(_)
dedupe(arr) ==
  IF arr = <<>> THEN <<>>
  ELSE LET init == dedupe(SubSeq(arr, 1, Len(arr) - 1))
           last == arr[Len(arr)]
       IN  IF arrIncludes(init, last) THEN init ELSE Append(init, last)

\* Whether the hint object carries field f.
Has(hints, f) == f \in DOMAIN hints

\* hints?.f when hints?.f?.length is truthy, else nothing to merge.
hintList(hints, f) == IF Has(hints, f) THEN hints[f] ELSE <<>>

\* A variant that appends the hint list as it is.
pushNewBlank(arr, list) == arr \o list

\* for (const a of list) if (a && !arr.includes(a)) arr.push(a)
RECURSIVE pushNew(_, _)
pushNew(arr, list) ==
  IF list = <<>> THEN arr
  ELSE LET a == Head(list)
       IN  pushNew(IF a # "" /\ ~arrIncludes(arr, a) THEN Append(arr, a) ELSE arr,
                   Tail(list))

\* table.filter(([k]) => contains(k)).map(([, v]) => v)
RECURSIVE matched(_, _)
matched(table, lower) ==
  IF table = <<>> THEN <<>>
  ELSE LET rest == matched(Tail(table), lower)
       IN  IF test(Head(table)[1], lower) THEN <<Head(table)[2]>> \o rest ELSE rest

\* The value of the first row whose pattern matches, else the default.
RECURSIVE firstMatch(_, _, _)
firstMatch(table, lower, default) ==
  IF table = <<>> THEN default
  ELSE IF test(Head(table)[1], lower) THEN Head(table)[2]
  ELSE firstMatch(Tail(table), lower, default)

(***************************************************************************)
(* The tests of the lower-cased idea text against the vocabulary tables    *)
(***************************************************************************)

\* Object.keys(audienceHints).forEach(k => contains(k) && audience.push(..))
RECURSIVE audienceMatches(_, _)
audienceMatches(table, lower) ==
  IF table = <<>> THEN <<>>
  ELSE LET rest == audienceMatches(Tail(table), lower)
       IN  IF includes(lower, Head(table)[1]) THEN <<Head(table)[2]>> \o rest ELSE rest

\* A variant whose chain ends in blog.
classifySiteTypeDefaultBlog(lower) == firstMatch(sitePatterns, lower, "blog")

\* A variant that tests the categories from the last to the first.
classifySiteTypeLastMatch(lower) ==
  LET n == Len(sitePatterns)
  IN  firstMatch([i \in 1..n |-> sitePatterns[n + 1 - i]], lower, "generic")

\* The ternary chain over the category patterns.
classifySiteType(lower) == firstMatch(sitePatterns, lower, "generic")

\* A variant where the last matching row wins.
classifyCurrencyLastMatch(lower) ==
  firstMatch([i \in 1..Len(currencyHints) |-> currencyHints[Len(currencyHints) + 1 - i]], lower, "USD")

\* The loop over currencyHints that stops at the first match.
classifyCurrency(lower) == firstMatch(currencyHints, lower, "USD")

\* Every outcome of contains(..) that improveIdea reads, for one text.
signalsOf(lower) ==
  [ audience   |-> audienceMatches(audienceHints, lower),
    siteType   |-> classifySiteType(lower),
    project    |-> test(projectPattern, lower),
    tone       |-> matched(tonePatterns, lower),
    features   |-> matched(featureMap, lower),
    industries |-> matched(industryMap, lower),
    usesArabic |-> test(arabicPattern, lower),
    regions    |-> matched(regionMap, lower),
    currency   |-> classifyCurrency(lower),
    payment    |-> test(paymentPattern, lower),
    compliance |-> matched(compliancePatterns, lower) ]

(***************************************************************************)
(* improveIdea: the classifier with the hints merged in, field by field    *)
(***************************************************************************)

audienceFallback == <<"Prospective customers and early adopters">>

\* A variant without the fallback audience.
audienceNoFallback(sig, hints) ==
  pushNew(dedupe(sig.audience), hintList(hints, "audience"))

audienceOf(sig, hints) ==
  LET hits == sig.audience
      base == IF Len(hits) = 0 THEN audienceFallback ELSE hits
  IN  pushNew(dedupe(base), hintList(hints, "audience"))

SiteTypes ==
  <<"saas", "ecommerce", "portfolio", "restaurant", "blog", "event", "booking", "generic">>

\* String(x).toLowerCase() of a hint string.
RECURSIVE lowerString(_)
lowerString(str) ==
  IF Len(str) = 0 THEN ""
  ELSE LET c == SubSeq(str, 1, 1)
       IN  (IF c \in DOMAIN UpperToLower THEN UpperToLower[c] ELSE c)
             \o lowerString(SubSeq(str, 2, Len(str)))

siteTypeOf(sig, hints) ==
  LET classified == sig.siteType
  IN  IF Has(hints, "siteType") /\ hints.siteType # ""
      THEN LET t == lowerString(hints.siteType)
           IN  IF arrIncludes(SiteTypes, t) THEN t ELSE classified
      ELSE classified

\* A variant in which a projectMode hint replaces the classified value.
projectModeReplaced(sig, hints) ==
  IF Has(hints, "projectMode") THEN hints.projectMode ELSE sig.project

projectModeOf(sig, hints) ==
  \/ sig.project
  \/ (Has(hints, "projectMode") /\ hints.projectMode)

toneFallback == <<"friendly", "confident", "concise">>

toneOf(sig, hints) ==
  LET hits == sig.tone
      base == IF Len(hits) = 0 THEN toneFallback ELSE hits
  IN  pushNew(base, hintList(hints, "tone"))

\* detectedFeatures: the matched feature labels, then the hinted ones.
featuresOf(sig, hints) ==
  pushNew(dedupe(sig.features), hintList(hints, "features"))

selectedFeaturesOf(siteType, features) ==
  dedupe(defaultFeaturesByType[siteType] \o features)

\* idea.replace(/\s+/g, " "): every run of white space becomes one space.
RECURSIVE collapseSpaces(_)
collapseSpaces(s) ==
  IF s = <<>> THEN <<>>
  ELSE IF IsSpace(Head(s))
       THEN <<" ">> \o collapseSpaces(trimStart(s))
       ELSE <<Head(s)>> \o collapseSpaces(Tail(s))

StatedGoalMax == 280

\* A variant that gives an empty idea a placeholder goal.
statedGoalPlaceholder(idea) ==
  IF Len(idea) > 0
  THEN LET c == collapseSpaces(idea)
       IN  SubSeq(c, 1, IF Len(c) < StatedGoalMax THEN Len(c) ELSE StatedGoalMax)
  ELSE Chars("(none)")

statedGoalOf(idea) ==
  IF Len(idea) > 0
  THEN LET c == collapseSpaces(idea)
       IN  SubSeq(c, 1, IF Len(c) < StatedGoalMax THEN Len(c) ELSE StatedGoalMax)
  ELSE <<>>

\* idea.split(/\s+/).filter(Boolean).length: the number of maximal runs of
\* characters that are not white space.
wordCountOf(idea) ==
  Cardinality({i \in 1..Len(idea) :
                 /\ ~IsSpace(idea[i])
                 /\ (i = 1 \/ IsSpace(idea[i - 1]))})

industriesOf(sig, hints) ==
  LET hits == dedupe(sig.industries)
      base == IF Len(hits) = 0 THEN <<"General">> ELSE hits
  IN  pushNew(base, hintList(hints, "industries"))

languagesOf(sig, hints) ==
  pushNew(dedupe(IF sig.usesArabic THEN <<"Arabic", "English">> ELSE <<"English">>),
          hintList(hints, "languages"))

\* A variant that falls back to "Global" only when the hints give no region
\* either.
regionsFallbackLast(sig, hints) ==
  LET merged == pushNew(dedupe(sig.regions), hintList(hints, "regions"))
  IN  IF Len(merged) = 0 THEN <<"Global">> ELSE merged

regionsOf(sig, hints) ==
  LET hits == dedupe(sig.regions)
      base == IF Len(hits) = 0 THEN <<"Global">> ELSE hits
  IN  pushNew(base, hintList(hints, "regions"))

currencyOf(sig, hints) ==
  IF Has(hints, "currency") /\ hints.currency # ""
  THEN hints.currency
  ELSE sig.currency

\* A variant that looks at the payment keywords alone.
requiresPaymentsKeywordOnly(sig, features) == sig.payment

\* requiresPayments before the hint: the checkout feature or a payment keyword.
requiresPaymentsOf(sig, features) ==
  arrIncludes(features, "E-commerce checkout") \/ sig.payment

\* A variant in which the hint can only switch payments on.
requiresPaymentsFinalOr(sig, hints, features) ==
  \/ (Has(hints, "requiresPayments") /\ hints.requiresPayments)
  \/ requiresPaymentsOf(sig, features)

\* Boolean(hints?.requiresPayments ?? requiresPayments)
requiresPaymentsFinalOf(sig, hints, features) ==
  IF Has(hints, "requiresPayments")
  THEN hints.requiresPayments
  ELSE requiresPaymentsOf(sig, features)

complianceOf(sig, hints) ==
  pushNew(sig.compliance, hintList(hints, "compliance"))

\* A variant that appends the payment pages without looking for them.
pagesOfAppendAll(siteType, hints, features, requiresPaymentsFinal) ==
  LET p0 == dedupe(pagesByType[siteType])
      p1 == IF arrIncludes(features, "Blog") /\ ~arrIncludes(p0, "Blog") THEN Append(p0, "Blog") ELSE p0
      p2 == pushNew(p1, hintList(hints, "pages"))
  IN  IF requiresPaymentsFinal THEN p2 \o <<"Billing", "Checkout">> ELSE p2

\* pages: the defaults of the site type, Blog, the hinted pages, then
\* Billing and Checkout when payments are required.
pagesOf(siteType, hints, features, requiresPaymentsFinal) ==
  LET p0 == dedupe(pagesByType[siteType])
      p1 == IF arrIncludes(features, "Blog") /\ ~arrIncludes(p0, "Blog")
            THEN Append(p0, "Blog") ELSE p0
      p2 == pushNew(p1, hintList(hints, "pages"))
  IN  IF requiresPaymentsFinal THEN pushNew(p2, <<"Billing", "Checkout">>) ELSE p2

\* The string made of the given code units.
RECURSIVE Str(_)
Str(cs) == IF Len(cs) = 0 THEN "" ELSE Head(cs) \o Str(Tail(cs))

IsSlugChar(c) ==
  c \in {"a","b","c","d","e","f","g","h","i","j","k","l","m","n","o","p","q",
         "r","s","t","u","v","w","x","y","z",
         "0","1","2","3","4","5","6","7","8","9"}

\* replace(/[^a-z0-9]+/g, "-")
RECURSIVE hyphenate(_)
hyphenate(cs) ==
  IF Len(cs) = 0 THEN <<>>
  ELSE IF IsSlugChar(Head(cs)) THEN <<Head(cs)>> \o hyphenate(Tail(cs))
  ELSE IF Len(cs) > 1 /\ ~IsSlugChar(cs[2]) THEN hyphenate(Tail(cs))
  ELSE <<"-">> \o hyphenate(Tail(cs))

\* A variant that removes the leading hyphens only.
RECURSIVE stripLeadingHyphens(_)
stripLeadingHyphens(cs) ==
  IF Len(cs) > 0 /\ Head(cs) = "-" THEN stripLeadingHyphens(Tail(cs)) ELSE cs

\* replace(/^-+|-+$/g, "")
RECURSIVE stripHyphens(_)
stripHyphens(cs) ==
  IF Len(cs) > 0 /\ Head(cs) = "-" THEN stripHyphens(Tail(cs))
  ELSE IF Len(cs) > 0 /\ cs[Len(cs)] = "-" THEN stripHyphens(SubSeq(cs, 1, Len(cs) - 1))
  ELSE cs

slugify(name) == "/" \o Str(stripHyphens(hyphenate(toLowerCase(Chars(name)))))

\* A variant that lists the entries in the reverse order of the pages.
sitemapOfReversed(pages) ==
  [i \in 1..Len(pages) |->
     [name |-> pages[Len(pages) + 1 - i], path |-> slugify(pages[Len(pages) + 1 - i])]]

sitemapOf(pages) ==
  [i \in 1..Len(pages) |-> [name |-> pages[i], path |-> slugify(pages[i])]]

userStoriesBase ==
  <<"As a visitor, I understand the value within 5 seconds",
    "As a visitor, I can complete the primary CTA easily",
    "As a visitor, I can trust the product via social proof">>

userStoriesOf(siteType, hints) ==
  pushNew(dedupe(userStoriesBase \o userStoriesByType[siteType]),
          hintList(hints, "userStories"))

techBaseline ==
  <<"Next.js 14+", "React", "TypeScript", "Tailwind CSS", "shadcn/ui",
    "Prisma + PostgreSQL", "NextAuth or similar", "Vercel or similar hosting">>

\* A variant that suggests the payment gateway for every site.
techSuggestionsWithGateway(sig, hints, features, requiresPaymentsFinal) ==
  LET t1 == <<"Stripe (or regional: Paymob/Fawry/MADA)">>
      t2 == IF sig.usesArabic THEN <<"i18n with Arabic + RTL support">> ELSE <<>>
      t3 == IF arrIncludes(features, "Blog")
            THEN <<"MDX or headless CMS (e.g., Sanity)">> ELSE <<>>
  IN  pushNew(dedupe(techBaseline \o t1 \o t2 \o t3), hintList(hints, "tech"))

techSuggestionsOf(sig, hints, features, requiresPaymentsFinal) ==
  LET t1 == IF requiresPaymentsFinal
            THEN <<"Stripe (or regional: Paymob/Fawry/MADA)">> ELSE <<>>
      t2 == IF sig.usesArabic THEN <<"i18n with Arabic + RTL support">> ELSE <<>>
      t3 == IF arrIncludes(features, "Blog")
            THEN <<"MDX or headless CMS (e.g., Sanity)">> ELSE <<>>
  IN  pushNew(dedupe(techBaseline \o t1 \o t2 \o t3), hintList(hints, "tech"))

nonFunctionalOf(sig) ==
  <<"Performance: LCP < 2.5s, TTI < 3.5s",
    "Accessibility: WCAG 2.1 AA",
    "SEO: title/description, sitemap.xml, robots.txt, Open Graph",
    "Security: HTTPS, CSP, secrets management",
    "Analytics: conversion events and funnels">>
  \o (IF sig.usesArabic
      THEN <<"Internationalization: RTL and Arabic typography">> ELSE <<>>)

\* kpisByType is rebuilt by every call, so pushing the hinted KPIs into its
\* array does not outlive the call.
kpisOf(siteType, hints) == pushNew(kpisByType[siteType], hintList(hints, "kpis"))

contentChecklistBase ==
  <<"Clear headline and subheadline",
    "Value proposition and benefits",
    "High-quality visuals or screenshots",
    "Social proof: logos, testimonials, ratings",
    "Pricing and plans (if applicable)",
    "FAQ and contact methods">>

contentChecklistOf(hints) ==
  pushNew(contentChecklistBase, hintList(hints, "contentChecklist"))

milestonesBase ==
  <<"MVP skeleton (layout, navigation, theming)",
    "Core flows implemented",
    "Content integration and SEO",
    "QA: accessibility and performance",
    "Launch and analytics instrumentation">>

milestonesOf(hints) == pushNew(milestonesBase, hintList(hints, "milestones"))

personasBase == <<"Visitor/Evaluator", "Buyer/Decision-maker", "Admin/Owner">>

personasOf(hints) == pushNew(personasBase, hintList(hints, "personas"))

clarifyingQuestionsOf(siteType, requiresPaymentsFinal, languages, compliance) ==
  <<"What is the brand/product name?",
    "What is the one-line value proposition?",
    "Who is the primary audience and which market/region?",
    "What is the primary CTA (e.g., sign up, book, buy)?",
    "Do you have existing branding (logo, colors, typography)?",
    "What integrations are required (e.g., analytics, CRM, payment)?",
    "What is the launch timeline and key milestones?",
    "What budget or constraints should we consider?">>
  \o (IF requiresPaymentsFinal
      THEN <<"Which payment gateways do you prefer (Stripe, Paymob, Fawry, MADA, etc.) and which currency to charge?">>
      ELSE <<>>)
  \o (IF arrIncludes(languages, "Arabic")
      THEN <<"Do you require Arabic RTL support and translation for all pages?">>
      ELSE <<>>)
  \o (IF siteType = "ecommerce"
      THEN <<"What is the product catalog size, categories, variants, shipping/returns policy?">>
      ELSE <<>>)
  \o (IF siteType = "saas"
      THEN <<"What is the pricing model (free, freemium, trial), onboarding flow, and docs scope?">>
      ELSE <<>>)
  \o (IF siteType = "booking"
      THEN <<"What services, durations, availability rules, and rescheduling/cancellation policies apply?">>
      ELSE <<>>)
  \o (IF siteType = "event"
      THEN <<"What ticket types, seating, speakers, and content schedule are expected?">>
      ELSE <<>>)
  \o (IF Len(compliance) > 0
      THEN <<"Do you need legal pages (Privacy, Terms, Cookies) and data retention policies aligned with compliance?">>
      ELSE <<>>)

(***************************************************************************)
(* Rendering.  A rendered text is the sequence of its pieces: literal      *)
(* strings, labels, and the code units of the quoted idea.                 *)
(***************************************************************************)

\* The Arabic string the tables give for an English key.
Ar(k) == "ar:" \o k

langOf(hints) == IF Has(hints, "outputLang") /\ hints.outputLang = "ar" THEN "ar" ELSE "en"

HeadingKeys ==
  {"Project overview", "Target audience", "Primary goals", "Tone & voice",
   "Suggested site structure", "Key features", "Content & CTAs", "Visual style",
   "Notes from the original idea", "Project blueprint", "Scope", "Pages & sitemap",
   "User stories", "Non-functional requirements", "KPIs", "Tech stack suggestions",
   "Content checklist", "Milestones", "Questions to clarify"}

H(lang, k) == IF lang = "ar" /\ k \in HeadingKeys THEN Ar(k) ELSE k

secArKeys ==
  {"Hero", "Problem", "Solution", "Features", "Testimonials", "Pricing", "FAQ",
   "Footer", "Featured Products", "Collections", "Product Detail", "Cart / Checkout",
   "Selected Work", "About", "Services", "Contact", "Menu", "Gallery", "Reservations",
   "Location & Hours", "Latest Posts", "Categories", "Featured Post", "Newsletter",
   "About Event", "Agenda", "Speakers", "Tickets", "Benefits", "CTA"}

\* "Collections" and "Categories" have the same Arabic string.
secAr == [k \in secArKeys |-> IF k = "Collections" THEN Ar("Categories") ELSE Ar(k)]

audienceArKeys ==
  {"Designers", "Developers", "Students", "Photographers",
   "Local diners and food lovers", "Donors and volunteers",
   "Early adopters and investors", "Online shoppers", "Parents", "Teachers",
   "Fitness enthusiasts", "Home buyers and sellers", "Business decision-makers",
   "Small business owners", "Prospective customers and early adopters"}

toneArKeys == {"playful", "minimal", "premium", "bold", "friendly", "confident", "concise"}

mapSection(lang, s) == IF lang = "ar" /\ s \in secArKeys THEN secAr[s] ELSE s

mapAudienceOut(lang, arr) ==
  [i \in 1..Len(arr) |-> IF lang = "ar" /\ arr[i] \in audienceArKeys THEN Ar(arr[i]) ELSE arr[i]]

mapToneOut(lang, arr) ==
  [i \in 1..Len(arr) |-> IF lang = "ar" /\ arr[i] \in toneArKeys THEN Ar(arr[i]) ELSE arr[i]]

\* arr.join(sep) as pieces.
RECURSIVE join(_, _)
join(arr, sep) ==
  IF Len(arr) = 0 THEN <<>>
  ELSE IF Len(arr) = 1 THEN <<arr[1]>>
  ELSE <<arr[1], sep>> \o join(Tail(arr), sep)

\* arr.map(s => `- ${s}`).join("\n")
RECURSIVE bullets(_)
bullets(arr) ==
  IF Len(arr) = 0 THEN <<>>
  ELSE IF Len(arr) = 1 THEN <<"- ", arr[1]>>
  ELSE <<"- ", arr[1], "\n">> \o bullets(Tail(arr))

\* A fixed bullet list, in the output language.
fixedBullets(lang, lines) ==
  join([i \in 1..Len(lines) |-> IF lang = "ar" THEN Ar(lines[i]) ELSE lines[i]], "\n")

primaryGoalsBullets(lang) ==
  fixedBullets(lang, <<"- Explain the product/service in plain language",
                       "- Establish trust with proof",
                       "- Guide visitors to a focused CTA (e.g., sign up, book, buy)">>)

contentCtasBullets(lang) ==
  fixedBullets(lang, <<"- Clear headline that states the value",
                       "- Subheadline that clarifies what, who, and outcome",
                       "- Primary CTA above the fold (sticky on mobile)",
                       "- Secondary CTA for evaluation (e.g., Learn more)",
                       "- Trust signals: logos, testimonials, ratings">>)

visualStyleBullets(lang) ==
  fixedBullets(lang, <<"- Clean, modern, accessible",
                       "- High contrast, generous spacing, responsive layout",
                       "- Use one accent color, consistent component styles">>)

\* Whether a rendered item is the empty string.
IsBlank(item) == \A i \in 1..Len(item) : item[i] = ""

\* items.filter(Boolean).join("\n"): the empty and undefined items are
\* dropped, the others are joined by line breaks.
RECURSIVE joinLines(_)
joinLines(items) ==
  IF Len(items) = 0 THEN <<>>
  ELSE IF IsBlank(Head(items)) THEN joinLines(Tail(items))
  ELSE LET rest == joinLines(Tail(items))
       IN  IF Len(rest) = 0 THEN Head(items) ELSE Head(items) \o <<"\n">> \o rest

\* items.join("\n"): every item is kept.
RECURSIVE joinAll(_)
joinAll(items) ==
  IF Len(items) = 0 THEN <<>>
  ELSE IF Len(items) = 1 THEN Head(items)
  ELSE Head(items) \o <<"\n">> \o joinAll(Tail(items))

overviewLine(lang, typeLabelOut, audienceOut) ==
  IF lang = "ar"
  THEN <<Ar("Build a "), typeLabelOut, Ar(" for ")>> \o join(audienceOut, ", ")
         \o <<Ar(". The purpose is to clearly communicate value and drive conversions.")>>
  ELSE <<"Build a ", typeLabelOut, " for ">> \o join(audienceOut, ", ")
         \o <<". The purpose is to clearly communicate value and drive conversions.">>

improvedOf(lang, siteType, audience, toneWords, selectedFeatures, statedGoal) ==
  LET audienceOut  == mapAudienceOut(lang, audience)
      toneOut      == mapToneOut(lang, toneWords)
      typeLabelOut == IF lang = "ar" THEN Ar(typeLabel[siteType]) ELSE typeLabel[siteType]
      sections     == sectionsByType[siteType]
      sectionsOut  == bullets([i \in 1..Len(sections) |-> mapSection(lang, sections[i])])
  IN  joinLines(<<
        <<H(lang, "Project overview")>>,
        overviewLine(lang, typeLabelOut, audienceOut),
        <<"">>,
        <<H(lang, "Target audience")>>,
        <<"- ">> \o join(audienceOut, "\n- "),
        <<"">>,
        <<H(lang, "Primary goals")>>,
        primaryGoalsBullets(lang),
        <<"">>,
        <<H(lang, "Tone & voice")>>,
        <<"- ">> \o join(toneOut, ", "),
        <<"">>,
        <<H(lang, "Suggested site structure")>>,
        sectionsOut,
        <<"">>,
        <<H(lang, "Key features")>>,
        bullets(selectedFeatures),
        <<"">>,
        <<H(lang, "Content & CTAs")>>,
        contentCtasBullets(lang),
        <<"">>,
        <<H(lang, "Visual style")>>,
        visualStyleBullets(lang),
        <<"">>,
        IF Len(statedGoal) > 0 THEN <<H(lang, "Notes from the original idea")>> ELSE <<>>,
        IF Len(statedGoal) > 0 THEN <<"- ">> \o statedGoal ELSE <<>> >>)

sitemapLines(sitemap) ==
  joinAll([i \in 1..Len(sitemap) |-> <<"- ", sitemap[i].name, " (", sitemap[i].path, ")">>])

projectBlueprintOf(lang, industries, regions, languages, currency, sitemap, userStories, nonFunctional, kpis, techSuggestions, contentChecklist, milestones, clarifyingQuestions) ==
  LET L(k) == IF lang = "ar" THEN Ar(k) ELSE k
  IN  joinAll(<<
        <<H(lang, "Project blueprint")>>,
        <<H(lang, "Scope")>>,
        <<L("- Industry: ")>> \o join(industries, ", "),
        <<L("- Regions: ")>> \o join(regions, ", "),
        <<L("- Languages: ")>> \o join(languages, ", "),
        <<L("- Currency: "), currency>>,
        <<"">>,
        <<H(lang, "Pages & sitemap")>>,
        sitemapLines(sitemap),
        <<"">>,
        <<H(lang, "User stories")>>,
        bullets(userStories),
        <<"">>,
        <<H(lang, "Non-functional requirements")>>,
        bullets(nonFunctional),
        <<"">>,
        <<H(lang, "KPIs")>>,
        bullets(kpis),
        <<"">>,
        <<H(lang, "Tech stack suggestions")>>,
        bullets(techSuggestions),
        <<"">>,
        <<H(lang, "Content checklist")>>,
        bullets(contentChecklist),
        <<"">>,
        <<H(lang, "Milestones")>>,
        bullets(milestones),
        <<"">>,
        <<H(lang, "Questions to clarify")>>,
        bullets(clarifyingQuestions) >>)
(***************************************************************************)
(* Inputs                                                                  *)
(***************************************************************************)

MaxPhrases == 2
MaxClock == 1

\* The phrases the modelled idea texts are made of.
Phrases ==
  {Chars("SaaS"), Chars("shop blog"), Chars("checkout"), Chars("project")}

RECURSIVE TextsOf(_)
TextsOf(n) ==
  IF n = 0 THEN {<<>>}
  ELSE LET shorter == TextsOf(n - 1)
       IN  shorter \cup {t \o <<" ">> \o p : t \in shorter \ {<<>>}, p \in Phrases}
                   \cup Phrases

\* The Arabic e-commerce idea of the documented scenario: a fashion online
\* store in Egypt with cart, buying and payment.
ScenarioTextAr ==
  <<"MEEM","TEH","JEEM","REH"," ","ALEF_HAMZA_BELOW","LAM","KAF","TEH","REH","WAW","NOON","YEH"," ",
    "LAM","LAM","ALEF_HAMZA_ABOVE","ZAIN","YEH","ALEF","HAMZA"," ","FEH","YEH"," ","MEEM","SAD","REH"," ",
    "MEEM","AIN"," ","SEEN","LAM","TEH_MARBUTA"," ","WAW","SHEEN","REH","ALEF","HAMZA"," ",
    "WAW","DAL","FEH","AIN">>

\* An idea of white space only.
BlankText == <<" ", "\t", " ">>

\* Ideas that name currencies and countries, some of them two at once.
CurrencyTexts ==
  { Chars("sterling in dubai"), Chars("euro or dollar"), Chars("uk pound"),
    <<"REH","YEH","ALEF","LAM">> \o Chars(" or usd"), Chars("bonus plan in egypt") }

\* Idea texts that are not made of the phrases.
ScenarioTexts ==
  {ScenarioTextAr, BlankText, Chars("arabic blog checkout")} \cup CurrencyTexts

Texts == TextsOf(MaxPhrases) \cup ScenarioTexts

\* The idea texts of the modelled requests.
IdeaTextA == Chars("shop blog")
IdeaTextB == Chars(" Project booking ")

\* Hint objects with one field each.
HintAtoms ==
  { [siteType |-> "booking"], [siteType |-> "forum"], [siteType |-> "SaaS"],
    [currency |-> "SAR"], [currency |-> ""],
    [projectMode |-> TRUE], [projectMode |-> FALSE],
    [requiresPayments |-> TRUE], [requiresPayments |-> FALSE],
    [outputLang |-> "ar"], [outputLang |-> "en"],
    [audience |-> <<"Online shoppers", "", "VIPs", "VIPs">>],
    [tone |-> <<"friendly", "warm">>],
    [features |-> <<"Blog", "E-commerce checkout">>],
    [industries |-> <<"General", "Retail">>],
    [regions |-> <<"Egypt">>],
    [languages |-> <<"Arabic">>],
    [compliance |-> <<"GDPR">>],
    [pages |-> <<"Blog", "Cart / Checkout", "", "--Q&A 2--", "!!!">>],
    [userStories |-> <<"As a user, I can reset my password", "As a user, I can export data">>],
    [tech |-> <<"React", "Redis">>],
    [contentChecklist |-> <<"Legal pages">>],
    [milestones |-> <<"Beta">>],
    [personas |-> <<"Admin/Owner", "Support agent">>],
    [kpis |-> <<"Menu views", "NPS">>] }

\* Hint objects with several fields.
HintCombos ==
  { [requiresPayments |-> FALSE, features |-> <<"E-commerce checkout">>],
    [siteType |-> "ecommerce", pages |-> <<"Returns">>, outputLang |-> "ar"],
    [projectMode |-> TRUE, currency |-> "EGP", kpis |-> <<"NPS">>],
    [siteType |-> "booking", features |-> <<"Blog">>, pages |-> <<"Team", "Home">>] }

\* No hints: improveIdea reads hints?.f, so undefined and {} are alike.
NoHints == <<>>

HintObjects == {NoHints} \cup HintAtoms \cup HintCombos

\* The outcomes of the text tests for every modelled text, computed once.
Signals ==
  [lower \in {toLowerCase(trim(t)) : t \in Texts \cup {IdeaTextA, IdeaTextB}} |->
     signalsOf(lower)]

(***************************************************************************)
(* improveIdea                                                             *)
(***************************************************************************)

\* The element of a one-element set.  Only({e(x) : x \in {v}}) is e with x
\* declared const x = v: v is computed once, however often e reads x.
Only(S) == CHOOSE x \in S : TRUE

\* The outcomes of the text tests for the lower-cased idea.
signalsFor(lower) == IF lower \in DOMAIN Signals THEN Signals[lower] ELSE signalsOf(lower)

\* The values improveIdea derives from the trimmed idea, the outcomes of the
\* text tests and the hints, before it writes any text.
vectorOf(idea, sig, hints) ==
  LET siteType == siteTypeOf(sig, hints)
      features == featuresOf(sig, hints)
      languages == languagesOf(sig, hints)
      compliance == complianceOf(sig, hints)
      requiresPaymentsFinal == requiresPaymentsFinalOf(sig, hints, features)
      pages == pagesOf(siteType, hints, features, requiresPaymentsFinal)
  IN  [ lang |-> langOf(hints),
        audience |-> audienceOf(sig, hints),
        siteType |-> siteType,
        projectMode |-> projectModeOf(sig, hints),
        toneWords |-> toneOf(sig, hints),
        features |-> features,
        statedGoal |-> statedGoalOf(idea),
        selectedFeatures |-> selectedFeaturesOf(siteType, features),
        industries |-> industriesOf(sig, hints),
        languages |-> languages,
        regions |-> regionsOf(sig, hints),
        currency |-> currencyOf(sig, hints),
        requiresPaymentsFinal |-> requiresPaymentsFinal,
        compliance |-> compliance,
        pages |-> pages,
        sitemap |-> sitemapOf(pages),
        userStories |-> userStoriesOf(siteType, hints),
        techSuggestions |-> techSuggestionsOf(sig, hints, features, requiresPaymentsFinal),
        nonFunctional |-> nonFunctionalOf(sig),
        kpis |-> kpisOf(siteType, hints),
        contentChecklist |-> contentChecklistOf(hints),
        milestones |-> milestonesOf(hints),
        personas |-> personasOf(hints),
        clarifyingQuestions |->
          clarifyingQuestionsOf(siteType, requiresPaymentsFinal, languages, compliance) ]

\* The improved text and the details object, from those values v.
resultOf(idea, v) ==
  [ improved |->
      improvedOf(v.lang, v.siteType, v.audience, v.toneWords, v.selectedFeatures,
                 v.statedGoal),
    details |->
      [ audience |-> v.audience,
        siteType |-> v.siteType,
        siteTypeLabel |-> typeLabel[v.siteType],
        tone |-> v.toneWords,
        suggestedSections |-> sectionsByType[v.siteType],
        defaultFeatures |-> defaultFeaturesByType[v.siteType],
        detectedFeatures |-> v.features,
        selectedFeatures |-> v.selectedFeatures,
        ideaLength |-> Len(idea),
        wordCount |-> IF Len(idea) > 0 THEN wordCountOf(idea) ELSE 0,
        statedGoal |-> v.statedGoal,
        projectMode |-> v.projectMode,
        industries |-> v.industries,
        regions |-> v.regions,
        languages |-> v.languages,
        currency |-> v.currency,
        requiresPayments |-> v.requiresPaymentsFinal,
        compliance |-> v.compliance,
        pages |-> v.pages,
        sitemap |-> v.sitemap,
        userStories |-> v.userStories,
        techSuggestions |-> v.techSuggestions,
        nonFunctional |-> v.nonFunctional,
        kpis |-> v.kpis,
        contentChecklist |-> v.contentChecklist,
        milestones |-> v.milestones,
        personas |-> v.personas,
        clarifyingQuestions |-> v.clarifyingQuestions,
        \* undefined is <<>>, a blueprint text t is <<t>>
        blueprint |->
          IF v.projectMode
          THEN <<projectBlueprintOf(v.lang, v.industries, v.regions, v.languages,
                                    v.currency, v.sitemap, v.userStories, v.nonFunctional,
                                    v.kpis, v.techSuggestions, v.contentChecklist,
                                    v.milestones, v.clarifyingQuestions)>>
          ELSE <<>>,
        outputLang |-> v.lang ] ]

\* Everything improveIdea computes from its arguments: the improved text and
\* the details object.
ideaResult(raw, hints) ==
  Only({ Only({ Only({ resultOf(idea, v) : v \in {vectorOf(idea, sig, hints)} })
                : sig \in {signalsFor(toLowerCase(idea))} })
         : idea \in {trim(raw)} })

\* A variant that stamps the details with the time of the call.
improveIdeaStamped(raw, hints, startedAt, endedAt) ==
  Only({ [ improved |-> r.improved,
           processingMs |-> endedAt - startedAt,
           details |-> [r.details EXCEPT !.ideaLength = startedAt] ]
         : r \in {ideaResult(raw, hints)} })

\* improveIdea.  startedAt and endedAt are its two readings of Date.now(),
\* the only state outside its arguments that it reads.
improveIdea(raw, hints, startedAt, endedAt) ==
  Only({ [ improved |-> r.improved,
           processingMs |-> endedAt - startedAt,
           details |-> r.details ]
         : r \in {ideaResult(raw, hints)} })

(***************************************************************************)
(* JSON values of a request body.  A value carries its JSON type; an       *)
(* object is a function from its keys to values.                           *)
(***************************************************************************)

JStr(s)  == [t |-> "string", v |-> s]
JBool(b) == [t |-> "boolean", v |-> b]
JNum(n)  == [t |-> "number", v |-> n]
JArr(a)  == [t |-> "array", v |-> a]
JObj(o)  == [t |-> "object", v |-> o]

\* { ...a, ...b }: the keys of both, b's value where both have the key.
spread(a, b) ==
  [k \in DOMAIN a \cup DOMAIN b |-> IF k \in DOMAIN b THEN b[k] ELSE a[k]]

EmptyObject == <<>>

CACHE_TTL_MS == 60000
RATE_LIMIT == 60
RATE_WINDOW_MS == 60000
MaxIdeaLength == 4000

\* getClientIp: the first x-forwarded-for address, else x-real-ip, else
\* "unknown".  xff is the header split at its commas, each part trimmed;
\* realIp is the trimmed x-real-ip header; an absent header is empty.
getClientIp(headers) ==
  IF Len(headers.xff) > 0 THEN headers.xff[1]
  ELSE IF headers.realIp # "" THEN headers.realIp
  ELSE "unknown"

(***************************************************************************)
(* The zod schemas                                                         *)
(***************************************************************************)

IsStringArray(x) == x.t = "array" /\ \A i \in 1..Len(x.v) : x.v[i].t = "string"

StringArrayFields ==
  {"audience", "tone", "features", "industries", "regions", "languages", "pages",
   "compliance", "kpis", "userStories", "tech", "contentChecklist", "milestones",
   "personas"}

HintFields ==
  StringArrayFields \cup {"siteType", "currency", "requiresPayments", "projectMode",
                          "outputLang"}

\* Whether value x is accepted for field f of hintsSchema.
hintFieldValid(f, x) ==
  IF f \in StringArrayFields THEN IsStringArray(x)
  ELSE IF f = "siteType" THEN x.t = "string" /\ arrIncludes(SiteTypes, x.v)
  ELSE IF f = "currency" THEN x.t = "string"
  ELSE IF f \in {"requiresPayments", "projectMode"} THEN x.t = "boolean"
  ELSE IF f = "outputLang" THEN x.t = "string" /\ x.v \in {"en", "ar"}
  ELSE TRUE

\* A variant of the schema without passthrough(): a key it does not name is
\* an error.
hintsSchemaStrict(o) ==
  /\ DOMAIN o \subseteq HintFields
  /\ \A f \in DOMAIN o : hintFieldValid(f, o[f])

\* hintsSchema.safeParse(o).success; passthrough() lets every other key by.
hintsSchema(o) == \A f \in DOMAIN o \cap HintFields : hintFieldValid(f, o[f])

\* requestSchema.safeParse(body).success
requestSchema(body) ==
  /\ "idea" \in DOMAIN body
  /\ body.idea.t = "string"
  /\ Len(trim(body.idea.v)) > 0
  /\ "details" \in DOMAIN body => body.details.t = "boolean"
  /\ "verbose" \in DOMAIN body => body.verbose.t = "boolean"
  /\ "outputLang" \in DOMAIN body =>
        (body.outputLang.t = "string" /\ body.outputLang.v \in {"en", "ar"})

(***************************************************************************)
(* POST                                                                    *)
(***************************************************************************)

\* Boolean(parsed.data.details ?? parsed.data.verbose ?? false)
includeDetailsOf(body) ==
  IF "details" \in DOMAIN body THEN body.details.v
  ELSE IF "verbose" \in DOMAIN body THEN body.verbose.v
  ELSE FALSE

IndexKeys == <<"0", "1", "2", "3">>

\* typeof bag === 'object' && bag ? bag : {}, as spread into an object: an
\* object gives its keys, an array its indices, anything else nothing.
bagOf(body, name) ==
  IF name \notin DOMAIN body THEN EmptyObject
  ELSE IF body[name].t = "object" THEN body[name].v
  ELSE IF body[name].t = "array"
       THEN [k \in {IndexKeys[i] : i \in 1..Len(body[name].v)} |->
               body[name].v[CHOOSE i \in 1..Len(body[name].v) : IndexKeys[i] = k]]
  ELSE EmptyObject

\* A variant in which the bag spread first keeps its key.
mergedHintsFirstWins(body) ==
  LET bags == spread(spread(spread(bagOf(body, "hints"), bagOf(body, "project")),
                            bagOf(body, "brief")),
                     bagOf(body, "meta"))
  IN  IF "outputLang" \in DOMAIN body
      THEN spread(bags, [outputLang |-> body.outputLang])
      ELSE bags

mergedHintsCandidate(body) ==
  LET bags == spread(spread(spread(bagOf(body, "meta"), bagOf(body, "brief")),
                            bagOf(body, "project")),
                     bagOf(body, "hints"))
  IN  IF "outputLang" \in DOMAIN body
      THEN spread(bags, [outputLang |-> body.outputLang])
      ELSE bags

\* The validated hint object as improveIdea reads it: the fields of the
\* schema hold plain strings, booleans and string arrays; any other key is
\* carried along as it came.
hintsData(o) ==
  [f \in DOMAIN o |->
     IF f \in StringArrayFields THEN [i \in 1..Len(o[f].v) |-> o[f].v[i].v]
     ELSE IF f \in HintFields THEN o[f].v
     ELSE o[f]]

\* A variant of the key that leaves the details flag out.
cacheKeyNoFlag(truncated, validated, includeDetails) ==
  [i |-> truncated, h |-> validated, d |-> FALSE]

\* JSON.stringify({ i, h: hints || null, d }): the key is the triple itself;
\* h is <<>> for null and <<object>> for a hint object.
cacheKeyOf(truncated, validated, includeDetails) ==
  [i |-> truncated, h |-> validated, d |-> includeDetails]

errorResponse(status, error, resetAt) ==
  [status |-> status, error |-> error, resetAt |-> resetAt, body |-> <<>>]

okResponse(body) ==
  [status |-> 200, error |-> "", resetAt |-> <<>>, body |-> <<body>>]

\* A variant that ends a window at its resetAt already.
rateLimitEndsEarly(rl, now) ==
  IF rl = <<>> \/ now >= rl[1].resetAt
  THEN <<[count |-> 1, resetAt |-> now + RATE_WINDOW_MS]>>
  ELSE IF rl[1].count >= RATE_LIMIT THEN <<>>
  ELSE <<[count |-> rl[1].count + 1, resetAt |-> rl[1].resetAt]>>

\* A variant that refuses a caller only past the limit.
rateLimitOneMore(rl, now) ==
  IF rl = <<>> \/ now > rl[1].resetAt
  THEN <<[count |-> 1, resetAt |-> now + RATE_WINDOW_MS]>>
  ELSE IF rl[1].count > RATE_LIMIT THEN <<>>
  ELSE <<[count |-> rl[1].count + 1, resetAt |-> rl[1].resetAt]>>

\* The rate limiter: the entry after the request, or <<>> when it is refused.
rateLimit(rl, now) ==
  IF rl = <<>> \/ now > rl[1].resetAt
  THEN <<[count |-> 1, resetAt |-> now + RATE_WINDOW_MS]>>
  ELSE IF rl[1].count >= RATE_LIMIT THEN <<>>
  ELSE <<[count |-> rl[1].count + 1, resetAt |-> rl[1].resetAt]>>

\* A variant that still serves an entry at the millisecond of its expiry.
cacheFreshAtExpiry(existing, now) == existing # <<>> /\ existing[1].expiresAt >= now

\* existing && existing.expiresAt > now, for the result of cache.get(cacheKey)
\* (<<>>: undefined).
cacheFresh(existing, now) == existing # <<>> /\ existing[1].expiresAt > now

\* The handler, from the parsed body on: the response and the two maps after
\* it.  now is the handler's reading of Date.now(); improveIdea runs from
\* now to now + d.
handle(body, headers, cacheBefore, rateBefore, now, d) ==
  IF ~requestSchema(body)
  THEN [response |-> errorResponse(400, "Invalid request", <<>>),
        cache |-> cacheBefore, rateMap |-> rateBefore]
  ELSE
    LET idea      == trim(body.idea.v)
        truncated == SubSeq(idea, 1, IF Len(idea) < MaxIdeaLength THEN Len(idea)
                                                                   ELSE MaxIdeaLength)
        includeDetails == includeDetailsOf(body)
        ip        == getClientIp(headers)
        rl        == IF ip \in DOMAIN rateBefore THEN <<rateBefore[ip]>> ELSE <<>>
        admitted  == rateLimit(rl, now)
    IN
    IF admitted = <<>>
    THEN [response |-> errorResponse(429, "Too many requests", <<rl[1].resetAt>>),
          cache |-> cacheBefore, rateMap |-> rateBefore]
    ELSE
      LET rateAfter == spread(rateBefore, [k \in {ip} |-> admitted[1]])
          candidate == mergedHintsCandidate(body)
          hasHints  == DOMAIN candidate # {}
      IN
      IF hasHints /\ ~hintsSchema(candidate)
      THEN [response |-> errorResponse(400, "Invalid hints", <<>>),
            cache |-> cacheBefore, rateMap |-> rateAfter]
      ELSE
        LET cacheKey == cacheKeyOf(truncated,
                                   IF hasHints THEN <<candidate>> ELSE <<>>,
                                   includeDetails)
        IN
        IF cacheFresh(IF cacheKey \in DOMAIN cacheBefore THEN <<cacheBefore[cacheKey]>>
                                                         ELSE <<>>, now)
        THEN [response |-> okResponse(cacheBefore[cacheKey].value),
              cache |-> cacheBefore, rateMap |-> rateAfter]
        ELSE
          Only({ [response |-> okResponse(response),
                  cache |-> spread(cacheBefore,
                                   [k \in {cacheKey} |->
                                      [value |-> response,
                                       expiresAt |-> now + CACHE_TTL_MS]]),
                  rateMap |-> rateAfter]
                 : response \in
                     { [ improved |-> r.improved,
                         meta |-> [processingMs |-> r.processingMs],
                         details |-> IF includeDetails THEN <<r.details>> ELSE <<>> ]
                       : r \in { improveIdea(truncated, hints, now, now + d)
                                 : hints \in {IF hasHints THEN hintsData(candidate)
                                                          ELSE NoHints} } } })

(***************************************************************************)
(* State                                                                   *)
(***************************************************************************)

MaxRequests == 1

\* raw, hints: the arguments of the calls of improveIdea under study;
\* now: the clock those calls read; out, prev: the results of the latest
\* call and of the one before it (<<>>: none yet).
\* cache, rateMap: the two module-level maps of the route; clock: Date.now();
\* req, resp: the latest request handled by POST and its response;
\* handled: how many requests there have been; admits: the requests that
\* went past the rate limiter, n of caller ip at time at per entry.
\* ui: the state of the page component (its useState values); fetches: the
\* calls of fetch that have not settled, in the order they were made, each
\* with the values its handler closed over; submitted: how many there have
\* been.
VARIABLES rawArg, hintsArg, coreNow, out, prev, cache, rateMap, clock, req, resp, handled, admits, ui, fetches, submitted

coreVars == <<rawArg, hintsArg, coreNow, out, prev>>
postVars == <<cache, rateMap, clock, req, resp, handled, admits>>
uiVars == <<ui, fetches, submitted>>
vars == <<rawArg, hintsArg, coreNow, out, prev, cache, rateMap, clock, req, resp, handled, admits, ui, fetches, submitted>>

PostIdle ==
  /\ cache = EmptyObject
  /\ rateMap = EmptyObject
  /\ clock = 0
  /\ req = <<>>
  /\ resp = <<>>
  /\ handled = 0
  /\ admits = <<>>

CoreIdle ==
  /\ rawArg = <<>>
  /\ hintsArg = NoHints
  /\ coreNow = 0
  /\ out = <<>>
  /\ prev = <<>>

\* The page as useState initialises it (null is <<>>, a value x is <<x>>; the
\* empty string is the empty text <<>>).
PageIdle ==
  /\ ui = [ idea |-> <<>>, improved |-> <<>>, loading |-> FALSE, error |-> <<>>,
            showResult |-> FALSE, outputLang |-> "en", includeDetails |-> FALSE,
            projectMode |-> FALSE, blueprint |-> <<>>, processingMs |-> <<>>,
            details |-> <<>> ]
  /\ fetches = <<>>
  /\ submitted = 0

(***************************************************************************)
(* Repeated invocations of improveIdea on one argument pair                *)
(***************************************************************************)

Init ==
  /\ rawArg \in Texts
  /\ hintsArg \in HintObjects
  /\ coreNow = 0
  /\ out = <<>>
  /\ prev = <<>>
  /\ PostIdle
  /\ PageIdle

\* One call improveIdea(raw, hints), during which the clock advances by d.
Invoke(d) ==
  /\ coreNow + d <= MaxClock
  /\ out' = <<improveIdea(rawArg, hintsArg, coreNow, coreNow + d)>>
  /\ prev' = out
  /\ coreNow' = coreNow + d
  /\ UNCHANGED <<rawArg, hintsArg>>
  /\ UNCHANGED postVars
  /\ UNCHANGED uiVars

Next == \E d \in 0..MaxClock : Invoke(d)

Spec == Init /\ [][Next]_vars

(***************************************************************************)
(* Requests to POST                                                        *)
(***************************************************************************)

IdeaA == JStr(IdeaTextA)
IdeaB == JStr(IdeaTextB)

Bodies ==
  { [idea |-> IdeaA],
    [idea |-> IdeaA, details |-> JBool(TRUE), hints |-> JObj([theme |-> JStr("dark")])],
    [idea |-> IdeaB, details |-> JBool(TRUE), hints |-> JObj([siteType |-> JStr("portfolio")])],
    [idea |-> IdeaB, hints |-> JObj([siteType |-> JStr("portfolio")])],
    [idea |-> IdeaB, details |-> JBool(TRUE),
     hints |-> JObj([siteType |-> JStr("portfolio"), theme |-> JStr("dark")])],
    [idea |-> IdeaB, details |-> JBool(TRUE), hints |-> JObj([siteType |-> JStr("forum")])],
    [idea |-> IdeaB, verbose |-> JBool(TRUE),
     hints |-> JObj([audience |-> JArr(<<JStr("VIPs")>>), priority |-> JNum(1)])],
    [idea |-> IdeaA, hints |-> JObj([audience |-> JStr("VIPs"), theme |-> JStr("dark")])],
    [idea |-> JStr(Chars("  "))] }

\* The address headers of a request: none, x-real-ip alone, and a proxy chain
\* in x-forwarded-for next to x-real-ip.
Direct == [xff |-> <<>>, realIp |-> ""]
RealIp == [xff |-> <<>>, realIp |-> "10.0.0.3"]
Proxied == [xff |-> <<"10.0.0.1", "10.0.0.2">>, realIp |-> "10.0.0.3"]

Headers == {Direct, RealIp, Proxied}

\* Every body from the caller without address headers, one body from the
\* two others.
Requests ==
  {[body |-> b, headers |-> Direct] : b \in Bodies}
    \cup {[body |-> [idea |-> IdeaA], headers |-> h] : h \in {RealIp, Proxied}}

\* The time between two requests: none, and the two sides of the moment a
\* cache entry expires.
Gaps == {0, CACHE_TTL_MS - 1, CACHE_TTL_MS}

\* The request whose response the cache may hold at the start.
EarlierRequest ==
  [idea |-> IdeaB, details |-> JBool(TRUE), hints |-> JObj([siteType |-> JStr("portfolio")])]

\* The limiter entry after n requests of one caller at the same time, none
\* of them refused: the first goes through rateLimit; after it the time is
\* not past resetAt, so each of the others takes the branch that adds one.
admitMany(rl, at, n) ==
  IF n = 0 THEN rl
  ELSE Only({ <<[count |-> first[1].count + (n - 1), resetAt |-> first[1].resetAt]>>
              : first \in {rateLimit(rl, at)} })

\* The limiter entry of one caller after the requests of a log of that
\* caller: n requests at time at per entry.
RECURSIVE replayLimiter(_, _)
replayLimiter(rl, log) ==
  IF Len(log) = 0 THEN rl
  ELSE replayLimiter(admitMany(rl, log[1].at, log[1].n), Tail(log))

\* Histories of the caller without address headers, whose requests all had
\* invalid hints (they pass the limiter and leave the cache alone): none;
\* RATE_LIMIT - 1 requests at time 0; one request at time 0, RATE_LIMIT - 1
\* at the last millisecond of its window and one in the millisecond after.
EarlierAdmits ==
  { <<>>,
    <<[ip |-> "unknown", at |-> 0, n |-> RATE_LIMIT - 1]>>,
    <<[ip |-> "unknown", at |-> 0, n |-> 1],
      [ip |-> "unknown", at |-> RATE_WINDOW_MS, n |-> RATE_LIMIT - 1],
      [ip |-> "unknown", at |-> RATE_WINDOW_MS + 1, n |-> 1]>> }

\* The route starts with both maps empty.  The states studied start there or
\* later: after EarlierRequest at time 0 from a caller of its own, which
\* leaves its response in the cache, and after one of the histories of
\* EarlierAdmits, at the time of its last request.
InitPost ==
  /\ CoreIdle
  /\ PageIdle
  /\ cache \in {EmptyObject,
                handle(EarlierRequest, [xff |-> <<"10.9.9.9">>, realIp |-> ""],
                       EmptyObject, EmptyObject, 0, 0).cache}
  /\ admits \in EarlierAdmits
  /\ \E rl \in {replayLimiter(<<>>, admits)} :
        rateMap = IF rl = <<>> THEN EmptyObject ELSE [k \in {"unknown"} |-> rl[1]]
  /\ clock = IF admits = <<>> THEN 0 ELSE admits[Len(admits)].at
  /\ req = <<>>
  /\ resp = <<>>
  /\ handled = 0

\* POST handles one request, gap after the one before: after the await of
\* the body the handler runs to its response without yielding.  improveIdea,
\* when it runs, takes d.
Post(q, gap, d) ==
  /\ handled < MaxRequests
  /\ \E h \in {handle(q.body, q.headers, cache, rateMap, clock + gap, d)} :
         /\ resp' = <<h.response>>
         /\ cache' = h.cache
         /\ rateMap' = h.rateMap
         /\ clock' = IF h.cache = cache THEN clock + gap ELSE clock + gap + d
         /\ admits' = IF h.rateMap = rateMap THEN admits
                       ELSE Append(admits, [ip |-> getClientIp(q.headers),
                                            at |-> clock + gap, n |-> 1])
  /\ req' = <<[json |-> TRUE, body |-> q.body, headers |-> q.headers, at |-> clock + gap]>>
  /\ handled' = handled + 1
  /\ UNCHANGED coreVars
  /\ UNCHANGED uiVars

\* A request whose body is not JSON: req.json() rejects, its catch puts {}
\* in the place of the body, and the handler goes on with that.  (Nothing
\* in the handler throws after that, so the outer catch block, which answers
\* 500, is never entered.)
PostUnparsable(headers, gap) ==
  /\ handled < MaxRequests
  /\ \E h \in {handle(EmptyObject, headers, cache, rateMap, clock + gap, 0)} :
         /\ resp' = <<h.response>>
         /\ cache' = h.cache
         /\ rateMap' = h.rateMap
  /\ req' = <<[json |-> FALSE, body |-> EmptyObject, headers |-> headers, at |-> clock + gap]>>
  /\ handled' = handled + 1
  /\ clock' = clock + gap
  /\ UNCHANGED admits
  /\ UNCHANGED coreVars
  /\ UNCHANGED uiVars

NextPost ==
  \/ \E q \in Requests, gap \in Gaps, d \in 0..MaxClock : Post(q, gap, d)
  \/ \E headers \in Headers, gap \in Gaps : PostUnparsable(headers, gap)

SpecPost == InitPost /\ [][NextPost]_vars

(***************************************************************************)
(* Requests at the edges of a rate window                                  *)
(***************************************************************************)

\* Histories of the caller without address headers: none, and a window
\* opened at time 0 with one admission left and with none left.
QuotaAdmits ==
  { <<>>,
    <<[ip |-> "unknown", at |-> 0, n |-> RATE_LIMIT - 1]>>,
    <<[ip |-> "unknown", at |-> 0, n |-> RATE_LIMIT]>> }

\* The time between two requests: none, up to the resetAt of a window opened
\* at the first of them, and one millisecond past it.
QuotaGaps == {0, RATE_WINDOW_MS, RATE_WINDOW_MS + 1}

\* A request that is computed, one that the cache may answer, one with
\* invalid hints and one with an invalid body, from the caller without
\* address headers; the first also from two other callers.
QuotaRequests ==
  {[body |-> b, headers |-> Direct] :
     b \in { [idea |-> IdeaA], EarlierRequest,
             [idea |-> IdeaB, details |-> JBool(TRUE),
              hints |-> JObj([siteType |-> JStr("forum")])],
             [idea |-> JStr(Chars("  "))] }}
    \cup {[body |-> [idea |-> IdeaA], headers |-> h] : h \in {RealIp, Proxied}}

InitQuota ==
  /\ CoreIdle
  /\ PageIdle
  /\ cache \in {EmptyObject,
                handle(EarlierRequest, [xff |-> <<"10.9.9.9">>, realIp |-> ""],
                       EmptyObject, EmptyObject, 0, 0).cache}
  /\ admits \in QuotaAdmits
  /\ \E rl \in {replayLimiter(<<>>, admits)} :
        rateMap = IF rl = <<>> THEN EmptyObject ELSE [k \in {"unknown"} |-> rl[1]]
  /\ clock = 0
  /\ req = <<>>
  /\ resp = <<>>
  /\ handled = 0

NextQuota ==
  \/ \E q \in QuotaRequests, gap \in QuotaGaps, d \in 0..MaxClock : Post(q, gap, d)
  \/ \E gap \in QuotaGaps : PostUnparsable(Direct, gap)

SpecQuota == InitQuota /\ [][NextQuota]_vars

(***************************************************************************)
(* Requests with several hint bags                                         *)
(***************************************************************************)

\* Bodies that spread their hints over the four bags: a key in several bags,
\* an array value next to a shorter one, bags that are a string, a number, a
\* boolean and an array, an outputLang at the top level next to one in a
\* bag, and a siteType outside the enumeration in an early and in a late
\* bag.
BagBodies ==
  { [idea |-> IdeaA, details |-> JBool(TRUE),
     meta |-> JObj([siteType |-> JStr("blog"),
                    audience |-> JArr(<<JStr("Readers"), JStr("Writers")>>)]),
     brief |-> JObj([siteType |-> JStr("saas"), theme |-> JStr("dark")]),
     project |-> JObj([projectMode |-> JBool(TRUE)]),
     hints |-> JObj([audience |-> JArr(<<JStr("VIPs")>>)])],
    [idea |-> IdeaA, details |-> JBool(TRUE),
     brief |-> JObj([siteType |-> JStr("saas")]),
     project |-> JObj([siteType |-> JStr("event")])],
    [idea |-> IdeaA, details |-> JBool(TRUE), outputLang |-> JStr("ar"),
     meta |-> JObj([outputLang |-> JStr("ar")]),
     hints |-> JObj([outputLang |-> JStr("en")])],
    [idea |-> IdeaA, details |-> JBool(TRUE),
     meta |-> JObj([outputLang |-> JStr("ar")]),
     hints |-> JObj([siteType |-> JStr("portfolio")])],
    [idea |-> IdeaB, details |-> JBool(TRUE),
     meta |-> JStr("blog"),
     hints |-> JObj([siteType |-> JStr("portfolio")])],
    [idea |-> IdeaB, brief |-> JNum(3), project |-> JBool(TRUE)],
    [idea |-> IdeaB, details |-> JBool(TRUE),
     meta |-> JArr(<<JStr("blog")>>)],
    [idea |-> IdeaB, details |-> JBool(TRUE),
     meta |-> JObj([siteType |-> JStr("forum")]),
     hints |-> JObj([siteType |-> JStr("blog")])],
    [idea |-> IdeaB, details |-> JBool(TRUE),
     meta |-> JObj([siteType |-> JStr("blog")]),
     hints |-> JObj([siteType |-> JStr("forum")])] }

BagRequests == {[body |-> b, headers |-> Direct] : b \in BagBodies}

NextBags == \E q \in BagRequests, gap \in Gaps, d \in 0..MaxClock : Post(q, gap, d)

SpecBags == InitPost /\ [][NextBags]_vars

(***************************************************************************)
(* The page: handleImprove and the controls around it                      *)
(***************************************************************************)

MaxSubmits == 2

EmptyIdeaMessage == "Please enter a rough website idea to improve."
FallbackMessage == "Something went wrong. Please try again."

\* What the textarea holds: nothing, white space, an idea with white space
\* around it.
PaddedIdea == <<" ">> \o IdeaTextA \o <<" ", "\n">>
PageIdeas == {<<>>, BlankText, PaddedIdea}

\* A variant that tests the text as typed.
emptyIdeaAsTyped(idea) == Len(idea) = 0

\* !trimmed, for trimmed = idea.trim()
emptyIdea(idea) == Len(trim(idea)) = 0

\* The body of the request: idea, details and outputLang, and the project
\* bag when project mode is ticked.
payloadOf(idea, includeDetails, outputLang, projectMode) ==
  spread([idea |-> JStr(trim(idea)), details |-> JBool(includeDetails),
          outputLang |-> JStr(outputLang)],
         IF projectMode THEN [project |-> JObj([projectMode |-> JBool(TRUE)])]
                        ELSE EmptyObject)

Payloads ==
  {payloadOf(PaddedIdea, dflag, "en", pflag) : dflag \in BOOLEAN, pflag \in BOOLEAN}

\* What the route answers to each payload when it computes the response, the
\* computation taking a millisecond.
ServerAnswer ==
  [p \in Payloads |-> handle(p, Direct, EmptyObject, EmptyObject, 0, 1).response]

\* How a call of fetch settles, as the handler sees it: a response with its
\* ok flag, its status and its body as res.json() gives it (<<>>: the body
\* cannot be read, res.json() rejects with message), or a rejection of fetch
\* itself with message.
settled(response) ==
  [ kind |-> "response", ok |-> response.status = 200, status |-> response.status,
    json |-> IF response.status = 200 THEN <<response.body[1]>>
             ELSE <<[error |-> response.error]>>,
    message |-> "" ]

\* The ways the call for a payload settles: the answer of the route, its 429
\* and a 500 whose body is not JSON, a 200 whose body is not JSON, and a
\* network error without a message.
Outcomes(payload) ==
  { settled(ServerAnswer[payload]),
    settled(errorResponse(429, "Too many requests", <<0>>)),
    [kind |-> "response", ok |-> FALSE, status |-> 500, json |-> <<>>, message |-> ""],
    [kind |-> "response", ok |-> TRUE, status |-> 200, json |-> <<>>,
     message |-> "Unexpected end of JSON input"],
    [kind |-> "rejected", ok |-> FALSE, status |-> 0, json |-> <<>>, message |-> ""] }

\* Whether the try block runs to its end.
succeeds(outcome) == outcome.kind = "response" /\ outcome.ok /\ outcome.json # <<>>

\* The message of what the try block throws.
thrownMessage(outcome) ==
  IF outcome.kind = "response" /\ ~outcome.ok
  THEN IF outcome.json # <<>> /\ outcome.json[1].error # ""
       THEN outcome.json[1].error
       ELSE "Request failed (" \o ToString(outcome.status) \o ")"
  ELSE outcome.message

\* A variant in which only the end of the try block brings loading down.
loadingAfterTryOnly(outcome) == ~succeeds(outcome)

\* loading after the finally block.
loadingAfter(outcome) == FALSE

\* The six setters at the head of handleImprove, applied to page.
cleared(page) ==
  [page EXCEPT !.error = <<>>, !.showResult = FALSE, !.improved = <<>>,
               !.blueprint = <<>>, !.processingMs = <<>>, !.details = <<>>]

\* The page after the call settled with outcome, includeDetails being the
\* value the handler closed over.  The effect on [improved] shows the result
\* when improved changed to a text that is not empty.
afterSettled(page, includeDetails, outcome) ==
  IF succeeds(outcome)
  THEN \* data = outcome.json[1]
       [page EXCEPT
          !.improved = outcome.json[1].improved,
          !.showResult = IF outcome.json[1].improved # page.improved
                            /\ outcome.json[1].improved # <<>>
                         THEN TRUE ELSE page.showResult,
          !.processingMs = <<outcome.json[1].meta.processingMs>>,
          !.blueprint = IF includeDetails /\ outcome.json[1].details # <<>>
                           /\ outcome.json[1].details[1].blueprint # <<>>
                        THEN outcome.json[1].details[1].blueprint[1]
                        ELSE <<>>,
          !.details = IF includeDetails /\ outcome.json[1].details # <<>>
                      THEN outcome.json[1].details
                      ELSE <<>>,
          !.loading = loadingAfter(outcome)]
  ELSE [page EXCEPT
          !.error = <<IF thrownMessage(outcome) # "" THEN thrownMessage(outcome)
                                                      ELSE FallbackMessage>>,
          !.loading = loadingAfter(outcome)]

InitPage == CoreIdle /\ PostIdle /\ PageIdle

\* The textarea, the two check boxes and the Clear button.  The language
\* select stays at its first value.
SetIdea(t) ==
  /\ t # ui.idea
  /\ ui' = [ui EXCEPT !.idea = t]
  /\ UNCHANGED <<fetches, submitted>>
  /\ UNCHANGED <<coreVars, postVars>>

SetIncludeDetails ==
  /\ ui' = [ui EXCEPT !.includeDetails = ~ui.includeDetails]
  /\ UNCHANGED <<fetches, submitted>>
  /\ UNCHANGED <<coreVars, postVars>>

SetProjectMode ==
  /\ ui' = [ui EXCEPT !.projectMode = ~ui.projectMode]
  /\ UNCHANGED <<fetches, submitted>>
  /\ UNCHANGED <<coreVars, postVars>>

Clear ==
  /\ ui' = [cleared(ui) EXCEPT !.idea = <<>>]
  /\ ui' # ui
  /\ UNCHANGED <<fetches, submitted>>
  /\ UNCHANGED <<coreVars, postVars>>

\* handleImprove up to its await: the setters, then the error for an empty
\* idea or the call of fetch.
handleImprove ==
  /\ IF emptyIdea(ui.idea)
     THEN /\ ui' = [cleared(ui) EXCEPT !.error = <<EmptyIdeaMessage>>]
          /\ UNCHANGED <<fetches, submitted>>
     ELSE /\ submitted < MaxSubmits
          /\ ui' = [cleared(ui) EXCEPT !.loading = TRUE]
          /\ fetches' = Append(fetches,
                               [ payload |-> payloadOf(ui.idea, ui.includeDetails,
                                                       ui.outputLang, ui.projectMode),
                                 includeDetails |-> ui.includeDetails,
                                 id |-> submitted + 1 ])
          /\ submitted' = submitted + 1
  /\ UNCHANGED <<coreVars, postVars>>

\* The button, disabled while loading.
ClickImprove == ~ui.loading /\ handleImprove

\* onKeyDown with Ctrl or Cmd and Enter in the textarea.
KeyImprove == handleImprove

\* handleImprove from its await on, for call i.
Settle(i, outcome) ==
  /\ ui' = afterSettled(ui, fetches[i].includeDetails, outcome)
  /\ fetches' = SubSeq(fetches, 1, i - 1) \o SubSeq(fetches, i + 1, Len(fetches))
  /\ UNCHANGED submitted
  /\ UNCHANGED <<coreVars, postVars>>

Settles == \E i \in 1..Len(fetches) : \E outcome \in Outcomes(fetches[i].payload) : Settle(i, outcome)

NextPage ==
  \/ \E t \in PageIdeas : SetIdea(t)
  \/ SetIncludeDetails
  \/ SetProjectMode
  \/ Clear
  \/ ClickImprove
  \/ KeyImprove
  \/ Settles

SpecPage == InitPage /\ [][NextPage]_vars

\* Every call of fetch settles.
SpecPageFair == SpecPage /\ WF_vars(Settles)


(***************************************************************************)
(* Properties of improveIdea                                               *)
(***************************************************************************)

\* The lower-cased, trimmed text the patterns are tested against.
LowerOf(t) == toLowerCase(trim(t))

\* The hint object without field f.
Without(h, f) == [k \in DOMAIN h \ {f} |-> h[k]]

\* The categories in the order of the chain, and the pattern of each.
CategoryOrder ==
  <<"saas", "ecommerce", "portfolio", "restaurant", "blog", "event", "booking">>

CategoryMatches(c, lower) ==
  \E i \in 1..Len(sitePatterns) : sitePatterns[i][2] = c /\ test(sitePatterns[i][1], lower)

\* For every modelled text, computed once: which category patterns, and
\* whether the project and the payment patterns, match its lower-cased form.
TextTests ==
  [t \in Texts |->
     [ categories |-> [i \in 1..Len(CategoryOrder) |->
                         CategoryMatches(CategoryOrder[i], LowerOf(t))],
       currency |-> [i \in 1..Len(currencyHints) |-> test(currencyHints[i][1], LowerOf(t))],
       arabic |-> test(arabicPattern, LowerOf(t)),
       project |-> test(projectPattern, LowerOf(t)),
       payment |-> test(paymentPattern, LowerOf(t)) ]]

\* For every modelled text, computed once: the details without any hint.
Classified == [t \in Texts |-> improveIdea(t, NoHints, 0, 0).details]

\* The tests of the text of the calls under study.
CategoryHit(i) == TextTests[rawArg].categories[i]
ProjectKeyword == TextTests[rawArg].project
PaymentKeyword == TextTests[rawArg].payment

\* The details of the latest call, and of a call on other hints.
D == out[1].details
DetailsFor(h) == IF DOMAIN h = {} THEN Classified[rawArg] ELSE improveIdea(rawArg, h, 0, 0).details

NoDuplicates(arr) == \A i, j \in 1..Len(arr) : arr[i] = arr[j] => i = j

Entries(arr) == {arr[i] : i \in 1..Len(arr)}

C2_Original ==
  out # <<>> =>
    /\ (Has(hintsArg, "siteType") /\ arrIncludes(SiteTypes, hintsArg.siteType))
          => D.siteType = hintsArg.siteType
    /\ Has(hintsArg, "currency") => D.currency = hintsArg.currency
    /\ Has(hintsArg, "projectMode") => D.projectMode = hintsArg.projectMode
    /\ Has(hintsArg, "requiresPayments") => D.requiresPayments = hintsArg.requiresPayments
    /\ Has(hintsArg, "outputLang") => D.outputLang = hintsArg.outputLang

\* C2 (amended): a siteType, requiresPayments (true or false) or outputLang
\* hint, a non-empty currency hint and a projectMode hint of true are the
\* result's value; a projectMode hint of false and an empty currency hint
\* leave the value classified from the text.
C2_ScalarHints ==
  out # <<>> =>
    /\ (Has(hintsArg, "siteType") /\ arrIncludes(SiteTypes, hintsArg.siteType))
          => D.siteType = hintsArg.siteType
    /\ (Has(hintsArg, "currency") /\ hintsArg.currency # "") => D.currency = hintsArg.currency
    /\ (Has(hintsArg, "currency") /\ hintsArg.currency = "")
          => D.currency = DetailsFor(Without(hintsArg, "currency")).currency
    /\ (Has(hintsArg, "projectMode") /\ hintsArg.projectMode) => D.projectMode
    /\ (Has(hintsArg, "projectMode") /\ ~hintsArg.projectMode)
          => D.projectMode = ProjectKeyword
    /\ Has(hintsArg, "requiresPayments") => D.requiresPayments = hintsArg.requiresPayments
    /\ Has(hintsArg, "outputLang") => D.outputLang = hintsArg.outputLang

\* C2 witness: a requiresPayments hint of false overrides a text that asks
\* for a checkout.
C2_Witness ==
  /\ out # <<>>
  /\ Has(hintsArg, "requiresPayments") /\ ~hintsArg.requiresPayments
  /\ PaymentKeyword
  /\ ~D.requiresPayments

\* The set-valued hint fields and the result field each is merged into.
SetFields ==
  [ audience |-> "audience", tone |-> "tone", features |-> "selectedFeatures",
    industries |-> "industries", regions |-> "regions", languages |-> "languages",
    compliance |-> "compliance", pages |-> "pages", userStories |-> "userStories",
    tech |-> "techSuggestions", contentChecklist |-> "contentChecklist",
    milestones |-> "milestones", personas |-> "personas", kpis |-> "kpis" ]

EnumeratedSiteTypes ==
  {"saas", "ecommerce", "portfolio", "restaurant", "blog", "event", "booking", "generic"}

\* C4: the siteType of the result is one of the eight enumerated values, and
\* it is generic when no category pattern matches and no siteType hint is given.
C4_SiteTypeTotal ==
  out # <<>> =>
    /\ D.siteType \in EnumeratedSiteTypes
    /\ (~Has(hintsArg, "siteType") /\ \A i \in 1..Len(CategoryOrder) : ~CategoryHit(i))
         => D.siteType = "generic"

\* C4 witness: a non-empty text that matches no category, no siteType hint.
C4_Witness ==
  /\ out # <<>>
  /\ rawArg # <<>>
  /\ ~Has(hintsArg, "siteType")
  /\ \A i \in 1..Len(CategoryOrder) : ~CategoryHit(i)
  /\ D.siteType = "generic"

\* C5: with no siteType hint the siteType is the first category, in the
\* order saas, ecommerce, portfolio, restaurant, blog, event, booking, whose
\* pattern matches the lower-cased text.
C5_FirstMatchWins ==
  (out # <<>> /\ ~Has(hintsArg, "siteType")) =>
    \A i \in 1..Len(CategoryOrder) :
      (CategoryHit(i) /\ \A j \in 1..(i - 1) : ~CategoryHit(j))
        => D.siteType = CategoryOrder[i]

\* C5 witness: a text matching the ecommerce pattern (second in the order)
\* and the blog pattern (fifth) is classified ecommerce.
C5_Witness ==
  /\ out # <<>>
  /\ ~Has(hintsArg, "siteType")
  /\ CategoryHit(2)
  /\ CategoryHit(5)
  /\ D.siteType = "ecommerce"

\* C6: audience, tone, industries, regions, languages, pages and sitemap of
\* the result are never empty.
C6_NonEmpty ==
  out # <<>> =>
    /\ Len(D.audience) > 0
    /\ Len(D.tone) > 0
    /\ Len(D.industries) > 0
    /\ Len(D.regions) > 0
    /\ Len(D.languages) > 0
    /\ Len(D.pages) > 0
    /\ Len(D.sitemap) > 0

\* C6 witness: the empty text with no hints gets the fallback values.
C6_Witness ==
  /\ out # <<>>
  /\ rawArg = <<>>
  /\ hintsArg = NoHints
  /\ D.audience = <<"Prospective customers and early adopters">>
  /\ D.industries = <<"General">>
  /\ D.regions = <<"Global">>

\* C7 (as stated): requiresPayments is true exactly when the checkout
\* feature was selected, a payment keyword matched, or a hint sets it.
C7_Original ==
  out # <<>> =>
    D.requiresPayments =
      (\/ arrIncludes(D.selectedFeatures, "E-commerce checkout")
       \/ PaymentKeyword
       \/ (Has(hintsArg, "requiresPayments") /\ hintsArg.requiresPayments))

\* C7 (amended): a requiresPayments hint, true or false, is the result's
\* value; with no such hint requiresPayments is true exactly when the
\* "E-commerce checkout" feature is among the features or a payment keyword
\* matched the text.
C7_RequiresPayments ==
  out # <<>> =>
    D.requiresPayments =
      IF Has(hintsArg, "requiresPayments") THEN hintsArg.requiresPayments
      ELSE \/ arrIncludes(D.selectedFeatures, "E-commerce checkout")
           \/ PaymentKeyword

\* C7 witness: the checkout feature comes from a features hint alone and
\* makes payments required.
C7_Witness ==
  /\ out # <<>>
  /\ ~Has(hintsArg, "requiresPayments")
  /\ ~PaymentKeyword
  /\ arrIncludes(D.selectedFeatures, "E-commerce checkout")
  /\ D.requiresPayments

\* C8: the blueprint is present exactly when projectMode is true, projectMode
\* is true exactly when a project keyword matches the text or a hint forces
\* it, and the improved text is always present.
C8_BlueprintIffProjectMode ==
  out # <<>> =>
    /\ (D.blueprint # <<>>) = D.projectMode
    /\ D.projectMode =
         (\/ ProjectKeyword
          \/ (Has(hintsArg, "projectMode") /\ hintsArg.projectMode))
    /\ Len(out[1].improved) > 0

\* C8 witness: a text without project keywords gets the blueprint through the
\* projectMode hint.
C8_Witness ==
  /\ out # <<>>
  /\ ~ProjectKeyword
  /\ Has(hintsArg, "projectMode") /\ hintsArg.projectMode
  /\ D.blueprint # <<>>

(***************************************************************************)
(* Properties of the site plan                                             *)
(***************************************************************************)

\* C11: the sitemap has one entry per page, in the order of the pages; the
\* name of entry i is page i and its path is the slug of page i.
C11_SitemapMatchesPages ==
  out # <<>> =>
    /\ Len(D.sitemap) = Len(D.pages)
    /\ \A i \in 1..Len(D.pages) :
         /\ D.sitemap[i].name = D.pages[i]
         /\ D.sitemap[i].path = slugify(D.pages[i])

\* C11 witness: a page list that holds default pages, a hinted page and the
\* payment pages, with the sitemap entry of the hinted page at its place.
C11_Witness ==
  /\ out # <<>>
  /\ Has(hintsArg, "pages")
  /\ \E i \in 1..Len(D.pages) :
       /\ i > 1 /\ i < Len(D.pages)
       /\ D.pages[i] = "Cart / Checkout"
       /\ D.sitemap[i] = [name |-> "Cart / Checkout", path |-> "/cart-checkout"]

\* The positions where a maximal run of characters of a-z0-9 starts, and the
\* position where the run that starts at i ends.
SlugRunStarts(cs) ==
  {i \in 1..Len(cs) : IsSlugChar(cs[i]) /\ (i = 1 \/ ~IsSlugChar(cs[i - 1]))}

SlugRunEnd(cs, i) ==
  CHOOSE j \in i..Len(cs) :
    /\ \A k \in i..j : IsSlugChar(cs[k])
    /\ j = Len(cs) \/ ~IsSlugChar(cs[j + 1])

\* The runs that start at the given positions, in order, one hyphen between
\* two neighbours.
RECURSIVE JoinRuns(_, _)
JoinRuns(cs, starts) ==
  IF starts = {} THEN <<>>
  ELSE LET i == CHOOSE x \in starts : \A y \in starts : x <= y
       IN  SubSeq(cs, i, SlugRunEnd(cs, i))
             \o (IF starts = {i} THEN <<>> ELSE <<"-">> \o JoinRuns(cs, starts \ {i}))

\* The path the rule gives a page name: every maximal run of the lower-cased
\* name outside a-z0-9 is one hyphen, and there is none at either end.
ExpectedPath(name) ==
  "/" \o Str(JoinRuns(toLowerCase(Chars(name)), SlugRunStarts(toLowerCase(Chars(name)))))

\* The part of a path after its leading slash has no hyphen at either end and
\* no two hyphens side by side.
CleanHyphens(path) ==
  \A b \in {SubSeq(Chars(path), 2, Len(path))} :
    /\ Len(b) > 0 => (b[1] # "-" /\ b[Len(b)] # "-")
    /\ \A k \in 1..(Len(b) - 1) : ~(b[k] = "-" /\ b[k + 1] = "-")

\* Every page name of the tables and of the hints, and the sitemap entry the
\* rule gives each of them.
PageNames ==
  UNION {Entries(pagesByType[SiteTypes[i]]) : i \in 1..Len(SiteTypes)}
    \cup UNION {Entries(hintList(h, "pages")) : h \in HintObjects}
    \cup {"Blog", "Billing", "Checkout"}

ExpectedEntries == {[name |-> n, path |-> ExpectedPath(n)] : n \in PageNames}

\* The expected paths without a hyphen at either end or two side by side.
CleanPaths == {p \in {e.path : e \in ExpectedEntries} : SubSeq(p, 1, 1) = "/" /\ CleanHyphens(p)}

CartCheckoutPath == slugify("Cart / Checkout")

\* C12: the path of a page is '/' followed by the lower-cased name with every
\* maximal run of characters outside a-z0-9 replaced by one hyphen and the
\* hyphens at both ends removed; 'Cart / Checkout' gives '/cart-checkout'; the
\* part after '/' never starts or ends with a hyphen and never holds two
\* hyphens side by side.
C12_SlugRule ==
  out # <<>> =>
    /\ CartCheckoutPath = "/cart-checkout"
    /\ \A i \in 1..Len(D.sitemap) :
         /\ D.sitemap[i] \in ExpectedEntries
         /\ D.sitemap[i].path \in CleanPaths

\* C12 witness: the sitemap holds a name with punctuation at both ends and
\* runs of punctuation inside, a name of punctuation only, and a default page
\* name with a run of three characters to replace.
C12_Witness ==
  /\ out # <<>>
  /\ \E i \in 1..Len(D.sitemap) : D.sitemap[i] = [name |-> "--Q&A 2--", path |-> "/q-a-2"]
  /\ \E i \in 1..Len(D.sitemap) : D.sitemap[i] = [name |-> "!!!", path |-> "/"]
  /\ \E i \in 1..Len(D.sitemap) : D.sitemap[i] = [name |-> "Cart / Checkout", path |-> "/cart-checkout"]

\* C13 (as stated): for the Arabic e-commerce idea of the scenario with the
\* hint outputLang = ar, the result has siteType ecommerce, regions containing
\* 'Egypt', currency 'EGP', requiresPayments true and every heading of the
\* improved text in Arabic.
C13_Original ==
  (out # <<>> /\ rawArg = ScenarioTextAr /\ hintsArg = [outputLang |-> "ar"]) =>
    /\ D.siteType = "ecommerce"
    /\ "Egypt" \in Entries(D.regions)
    /\ D.currency = "EGP"
    /\ D.requiresPayments
    /\ \A k \in HeadingKeys : k \notin Entries(out[1].improved)

\* The improved text has the section of notes from the original idea.
NotesPresent ==
  \E k \in 1..Len(out[1].improved) :
    out[1].improved[k] \in {"Notes from the original idea", Ar("Notes from the original idea")}

\* C14: for an empty or white-space-only text and no hints improveIdea returns
\* a result with siteType generic, the fallback audience, an empty statedGoal
\* and an improved text without the section of notes from the original idea;
\* for every text the section is present exactly when statedGoal is not empty.
C14_EmptyIdea ==
  out # <<>> =>
    /\ (trim(rawArg) = <<>> /\ hintsArg = NoHints) =>
         /\ D.siteType = "generic"
         /\ D.audience = audienceFallback
         /\ D.statedGoal = <<>>
         /\ Len(out[1].improved) > 0
         /\ ~NotesPresent
    /\ NotesPresent = (D.statedGoal # <<>>)

\* C14 witness: a text of white space only, without hints, has been improved.
C14_Witness ==
  /\ out # <<>>
  /\ Len(rawArg) > 0 /\ trim(rawArg) = <<>>
  /\ hintsArg = NoHints
  /\ D.siteType = "generic"
  /\ ~NotesPresent

\* The pages of the result are the default pages of the final siteType first,
\* in table order, then exactly the pages the three rules add: 'Blog' when
\* blogWanted, 'Billing' and 'Checkout' when payments are required, and the
\* non-empty hint pages; no page is listed twice.
PagesRule(blogWanted) ==
  \A defaults \in {pagesByType[D.siteType]} :
    /\ NoDuplicates(D.pages)
    /\ Len(D.pages) >= Len(defaults)
    /\ SubSeq(D.pages, 1, Len(defaults)) = defaults
    /\ Entries(D.pages) =
         Entries(defaults)
           \cup (IF blogWanted THEN {"Blog"} ELSE {})
           \cup (IF D.requiresPayments THEN {"Billing", "Checkout"} ELSE {})
           \cup (Entries(hintList(hintsArg, "pages")) \ {""})

\* C15 (as stated): the pages are the default pages of the final siteType,
\* 'Blog' when the Blog feature is detected in the text, 'Billing' and
\* 'Checkout' when the final requiresPayments is true, and every non-empty hint
\* page, without duplicates, defaults first in table order, and no other page.
C15_Original ==
  out # <<>> => PagesRule("Blog" \in Entries(Classified[rawArg].detectedFeatures))

\* C15 (amended): as stated, with 'Blog' added when the Blog feature is among
\* the features of the result, detected in the text or given by a hint.
C15_PagesRule ==
  out # <<>> => PagesRule("Blog" \in Entries(D.detectedFeatures))

\* C15 witness: a booking site by hint, with the Blog feature by hint only,
\* hint pages of which one is a default page, and payments detected in the
\* text: the pages hold the defaults, then Blog, the new hint page and the
\* payment pages.
C15_Witness ==
  /\ out # <<>>
  /\ D.siteType = "booking"
  /\ "Blog" \notin Entries(Classified[rawArg].detectedFeatures)
  /\ D.requiresPayments
  /\ D.pages = pagesByType["booking"] \o <<"Blog", "Team", "Billing", "Checkout">>

\* The currencies in the priority order of their patterns.
CurrencyOrder == <<"EGP", "SAR", "AED", "USD", "EUR", "GBP">>

\* The rows of the currency table whose pattern matches the text.
CurrencyHits == {i \in 1..Len(CurrencyOrder) : TextTests[rawArg].currency[i]}

\* C16: with no currency hint the currency is that of the first pattern that
\* matches the text in the order EGP, SAR, AED, USD, EUR, GBP, and 'USD' when
\* none matches; a text matching an earlier and a later pattern gets the
\* earlier currency.
C16_CurrencyPriority ==
  (out # <<>> /\ ~Has(hintsArg, "currency")) =>
    /\ \A i \in 1..Len(CurrencyOrder) : currencyHints[i][2] = CurrencyOrder[i]
    /\ CurrencyHits = {} => D.currency = "USD"
    /\ \A i \in CurrencyHits :
         (\A j \in CurrencyHits : i <= j) => D.currency = CurrencyOrder[i]

\* C16 witness: a text that matches the patterns of two currencies other
\* than the default gets the earlier one.
C16_Witness ==
  /\ out # <<>>
  /\ ~Has(hintsArg, "currency")
  /\ CurrencyHits = {3, 6}
  /\ D.currency = "AED"

\* The text names Arabic or RTL.
ArabicKeyword == TextTests[rawArg].arabic

\* techSuggestions is the baseline stack followed by exactly the suggestions
\* of the three rules, the i18n/RTL one when wantsArabic.
TechRule(wantsArabic) ==
  /\ Len(D.techSuggestions) >= Len(techBaseline)
  /\ SubSeq(D.techSuggestions, 1, Len(techBaseline)) = techBaseline
  /\ NoDuplicates(D.techSuggestions)
  /\ Entries(D.techSuggestions) =
       Entries(techBaseline)
         \cup (IF D.requiresPayments THEN {"Stripe (or regional: Paymob/Fawry/MADA)"} ELSE {})
         \cup (IF wantsArabic THEN {"i18n with Arabic + RTL support"} ELSE {})
         \cup (IF "Blog" \in Entries(D.detectedFeatures)
               THEN {"MDX or headless CMS (e.g., Sanity)"} ELSE {})

\* C17 (as stated): with no tech hints, techSuggestions is the baseline stack
\* extended by the payment-gateway suggestion exactly when the final
\* requiresPayments is true, by the i18n/RTL suggestion exactly when Arabic is
\* among the languages of the result, and by the MDX/CMS suggestion exactly
\* when Blog is among the features.
C17_Original ==
  (out # <<>> /\ ~Has(hintsArg, "tech")) => TechRule("Arabic" \in Entries(D.languages))

\* C17 (amended): as stated, with the i18n/RTL suggestion exactly when the
\* text matches the Arabic/RTL keyword pattern, whatever the languages hint.
C17_TechRule ==
  (out # <<>> /\ ~Has(hintsArg, "tech")) => TechRule(ArabicKeyword)

\* C17 witness: a text with an Arabic keyword, a blog keyword and a payment
\* keyword, without tech hints, gets the three suggestions after the baseline.
C17_Witness ==
  /\ out # <<>>
  /\ ~Has(hintsArg, "tech")
  /\ ArabicKeyword
  /\ D.techSuggestions =
       techBaseline \o <<"Stripe (or regional: Paymob/Fawry/MADA)",
                         "i18n with Arabic + RTL support",
                         "MDX or headless CMS (e.g., Sanity)">>

(***************************************************************************)
(* Properties of POST                                                      *)
(***************************************************************************)

BagNames == {"meta", "brief", "project", "hints"}

\* The body with every hint key the schema does not name taken out of its
\* hint bags.
StripUnknown(body) ==
  [k \in DOMAIN body |->
     IF k \in BagNames /\ body[k].t = "object"
     THEN JObj([f \in DOMAIN body[k].v \cap HintFields |-> body[k].v[f]])
     ELSE body[k]]

\* The merged siteType hint of the latest request is a string outside the
\* enumeration and nothing else is wrong with the request.
InvalidSiteTypeOnly ==
  /\ req # <<>> /\ req[1].json
  /\ requestSchema(req[1].body)
  /\ LET c == mergedHintsCandidate(req[1].body)
     IN  /\ "siteType" \in DOMAIN c
         /\ c.siteType.t = "string"
         /\ ~arrIncludes(SiteTypes, c.siteType.v)
         /\ hintsSchema([f \in DOMAIN c \ {"siteType"} |-> c[f]])

\* C9 (as stated): a request whose siteType hint is outside the eight
\* enumerated site types, and that is not turned away by the rate limiter,
\* completes with status 200, and its siteType is the one classified from
\* the text.
C9_Original ==
  (InvalidSiteTypeOnly /\ resp[1].status # 429) =>
    /\ resp[1].status = 200
    /\ resp[1].body[1].details # <<>> =>
         resp[1].body[1].details[1].siteType
           = classifySiteType(LowerOf(req[1].body.idea.v))

\* C10: adding hint keys that the schema does not name to a request changes
\* neither the status of its response nor, when it succeeds, the improved
\* text and the details: the response is that of the request without those
\* keys, handled in the same state of the cache and the rate limiter.
C10_UnknownKeysIgnored ==
  [][(handled' = handled + 1 /\ req'[1].json) =>
        \A twin \in {handle(StripUnknown(req'[1].body), req'[1].headers,
                             cache, rateMap, req'[1].at, 0).response} :
          /\ resp'[1].status = twin.status
          /\ resp'[1].error = twin.error
          /\ twin.status = 200 =>
               /\ resp'[1].body[1].improved = twin.body[1].improved
               /\ resp'[1].body[1].details = twin.body[1].details]_vars

\* C10 witness: a request with a recognized and an unrecognized hint key
\* succeeded, details included, and the recognized hint took effect.
C10_Witness ==
  /\ req # <<>> /\ req[1].json
  /\ StripUnknown(req[1].body) # req[1].body
  /\ "siteType" \in DOMAIN mergedHintsCandidate(req[1].body)
  /\ resp[1].status = 200
  /\ resp[1].body[1].details # <<>>
  /\ resp[1].body[1].details[1].siteType = "portfolio"

\* How many requests of caller ip the log shows past the limiter at a time
\* from `from` on and before `from` + RATE_WINDOW_MS.
RECURSIVE admittedIn(_, _, _)
admittedIn(log, ip, from) ==
  IF Len(log) = 0 THEN 0
  ELSE (IF log[1].ip = ip /\ log[1].at >= from /\ log[1].at < from + RATE_WINDOW_MS
        THEN log[1].n ELSE 0)
       + admittedIn(Tail(log), ip, from)

\* C18 (as stated): the limiter is a sliding counter per caller: in every
\* interval of length RATE_WINDOW_MS at most RATE_LIMIT requests of one caller
\* go past the limiter.  It is enough to look at the intervals that start
\* with a request.
C18_Original ==
  \A i \in 1..Len(admits) :
    admittedIn(admits, admits[i].ip, admits[i].at) <= RATE_LIMIT

\* The cache key of a request that passes both schemas.
requestKey(body) ==
  cacheKeyOf(SubSeq(trim(body.idea.v), 1,
                    IF Len(trim(body.idea.v)) < MaxIdeaLength THEN Len(trim(body.idea.v))
                                                               ELSE MaxIdeaLength),
             IF DOMAIN mergedHintsCandidate(body) # {} THEN <<mergedHintsCandidate(body)>>
                                                      ELSE <<>>,
             includeDetailsOf(body))

\* C19 (as stated): a cache entry expires CACHE_TTL_MS after it was stored:
\* when a request stores an entry, which it does once improveIdea has
\* returned, the expiry of the entry is the time of the store plus
\* CACHE_TTL_MS.
C19_Original ==
  [][(handled' = handled + 1 /\ cache' # cache) =>
       cache'[requestKey(req'[1].body)].expiresAt = clock' + CACHE_TTL_MS]_vars

\* C19 (amended): a cache entry is keyed by (truncated text, validated hints,
\* details flag) and expires CACHE_TTL_MS after the clock reading that the
\* request that stored it took on arrival, before improveIdea ran.  A request that succeeds is served the entry of its own key when
\* it arrives strictly before the expiry, and then the cache, expiry
\* included, stays as it was; otherwise (no entry of its key, or arrival at or
\* after the expiry) the response is computed afresh and replaces the entry
\* of the key, with a new expiry, all other entries staying.  A request that
\* does not succeed leaves the cache alone.
C19_CacheExpiry ==
  [][(handled' = handled + 1) =>
       /\ ~(req'[1].json /\ resp'[1].status = 200) => cache' = cache
       /\ (req'[1].json /\ resp'[1].status = 200) =>
            \A k \in {requestKey(req'[1].body)} :
              /\ (k \in DOMAIN cache /\ req'[1].at < cache[k].expiresAt) =>
                   /\ resp'[1].body[1] = cache[k].value
                   /\ cache' = cache
              /\ ~(k \in DOMAIN cache /\ req'[1].at < cache[k].expiresAt) =>
                   /\ DOMAIN cache' = DOMAIN cache \cup {k}
                   /\ \A other \in DOMAIN cache \ {k} : cache'[other] = cache[other]
                   /\ cache'[k].expiresAt = req'[1].at + CACHE_TTL_MS
                   /\ cache'[k].value = resp'[1].body[1]
                   /\ resp'[1] = handle(req'[1].body, req'[1].headers, EmptyObject,
                                        rateMap, req'[1].at, clock' - req'[1].at).response]_vars

\* C19 witness: a request was served the entry of its key in the last
\* millisecond before the expiry, and the entry kept its expiry.
C19_Witness ==
  /\ req # <<>> /\ req[1].json
  /\ resp[1].status = 200
  /\ requestKey(req[1].body) \in DOMAIN cache
  /\ cache[requestKey(req[1].body)].expiresAt = req[1].at + 1
  /\ cache[requestKey(req[1].body)].value = resp[1].body[1]

\* C20: memoization is transparent: every request gets the status, the
\* improved text and the details that the handler gives it when the cache is
\* empty, the rate limiter being in the same state, whether its response
\* came out of the cache or was computed.
C20_CacheTransparent ==
  [][(handled' = handled + 1 /\ req'[1].json) =>
        \A fresh \in {handle(req'[1].body, req'[1].headers, EmptyObject,
                              rateMap, req'[1].at, 0).response} :
          /\ resp'[1].status = fresh.status
          /\ fresh.status = 200 =>
               /\ resp'[1].body[1].improved = fresh.body[1].improved
               /\ resp'[1].body[1].details = fresh.body[1].details]_vars

\* C20 witness: a request with details was served, at the time the entry was
\* stored, the response that an earlier request of another caller had left
\* in the cache.
C20_Witness ==
  /\ req # <<>> /\ req[1].json
  /\ resp[1].status = 200
  /\ resp[1].body[1].details # <<>>
  /\ req[1].at = 0
  /\ getClientIp(req[1].headers) = "unknown"
  /\ requestKey(req[1].body) = requestKey(EarlierRequest)
  /\ cache = handle(EarlierRequest, [xff |-> <<"10.9.9.9">>, realIp |-> ""],
                    EmptyObject, EmptyObject, 0, 0).cache

(***************************************************************************)
(* Properties of the hint bags                                             *)
(***************************************************************************)

BagOrder == <<"meta", "brief", "project", "hints">>

\* The keys that bag name of the body contributes when the bags of the JSON
\* types in kinds count: the keys of an object, the indices of an array.
BagKeys(body, name, kinds) ==
  IF name \notin DOMAIN body THEN {}
  ELSE IF body[name].t \notin kinds THEN {}
  ELSE IF body[name].t = "object" THEN DOMAIN body[name].v
  ELSE IF body[name].t = "array" THEN {IndexKeys[i] : i \in 1..Len(body[name].v)}
  ELSE {}

BagValue(body, name, k) ==
  IF body[name].t = "object" THEN body[name].v[k]
  ELSE body[name].v[CHOOSE i \in 1..Len(body[name].v) : IndexKeys[i] = k]

\* The key-wise merge of the four bags: every key of a bag that counts, with
\* the whole value of the last bag in BagOrder that has the key; outputLang
\* is the top-level one when the body has one.
ExpectedHints(body, kinds) ==
  LET top  == "outputLang" \in DOMAIN body
      keys == UNION {BagKeys(body, BagOrder[i], kinds) : i \in 1..Len(BagOrder)}
                \cup (IF top THEN {"outputLang"} ELSE {})
      last(k) == CHOOSE i \in 1..Len(BagOrder) :
                   /\ k \in BagKeys(body, BagOrder[i], kinds)
                   /\ \A j \in (i + 1)..Len(BagOrder) : k \notin BagKeys(body, BagOrder[j], kinds)
  IN  [k \in keys |-> IF top /\ k = "outputLang" THEN body.outputLang
                      ELSE BagValue(body, BagOrder[last(k)], k)]

\* The idea of a body as the handler passes it on.
truncatedOf(body) ==
  SubSeq(trim(body.idea.v), 1,
         IF Len(trim(body.idea.v)) < MaxIdeaLength THEN Len(trim(body.idea.v))
                                                    ELSE MaxIdeaLength)

\* The step handles a request that passes requestSchema and the limiter, and
\* what follows is what follows from the hint object e: when e has keys and
\* fails hintsSchema the answer is 400; otherwise the answer is 200, the
\* cache holds an entry under the key made of e, and a response computed in
\* this step is the one improveIdea gives on e.
MergedHintsAre(kinds) ==
  (handled' = handled + 1 /\ req'[1].json /\ requestSchema(req'[1].body)
     /\ resp'[1].status # 429) =>
    \A e \in {ExpectedHints(req'[1].body, kinds)} :
      /\ (DOMAIN e # {} /\ ~hintsSchema(e)) =>
           (resp'[1].status = 400 /\ resp'[1].error = "Invalid hints")
      /\ ~(DOMAIN e # {} /\ ~hintsSchema(e)) =>
           /\ resp'[1].status = 200
           /\ cacheKeyOf(truncatedOf(req'[1].body),
                         IF DOMAIN e # {} THEN <<e>> ELSE <<>>,
                         includeDetailsOf(req'[1].body)) \in DOMAIN cache'
           /\ cache' # cache =>
                \A r \in {improveIdea(truncatedOf(req'[1].body),
                                      IF DOMAIN e # {} THEN hintsData(e) ELSE NoHints,
                                      req'[1].at, clock')} :
                  /\ resp'[1].body[1].improved = r.improved
                  /\ resp'[1].body[1].meta.processingMs = r.processingMs
                  /\ includeDetailsOf(req'[1].body) =>
                       resp'[1].body[1].details = <<r.details>>

\* C21 (as stated): the hint object passed to the core is the key-wise merge
\* of the meta, brief, project and hints bags of the request, the later bag
\* in that order winning with its whole value, a top-level outputLang
\* overriding one of any bag; a bag that is not a JSON object contributes
\* nothing.
C21_Original == [][MergedHintsAre({"object"})]_vars

\* C21 (amended): the hint object passed to the core is the key-wise merge
\* of the meta, brief, project and hints bags of the request, the later bag
\* in that order winning with its whole value, a top-level outputLang
\* overriding one of any bag; a bag that is a string, a number or a boolean
\* contributes nothing, and a bag that is an array contributes its elements
\* under their indices as keys.
C21_MergedHints == [][MergedHintsAre({"object", "array"})]_vars

\* C21 witness: a request with a top-level outputLang different from the one
\* of its hints bag was answered in the top-level language, and a request
\* whose meta and hints bags both give an audience was answered with the
\* audience of the hints bag alone.
C21_Witness ==
  /\ req # <<>> /\ req[1].json
  /\ resp[1].status = 200
  /\ resp[1].body[1].details # <<>>
  /\ \/ /\ "outputLang" \in DOMAIN req[1].body
        /\ "hints" \in DOMAIN req[1].body
        /\ "outputLang" \in BagKeys(req[1].body, "hints", {"object"})
        /\ req[1].body.hints.v.outputLang # req[1].body.outputLang
        /\ resp[1].body[1].details[1].outputLang = req[1].body.outputLang.v
     \/ /\ "audience" \in BagKeys(req[1].body, "meta", {"object"})
                            \cap BagKeys(req[1].body, "hints", {"object"})
        /\ arrIncludes(resp[1].body[1].details[1].audience, "VIPs")
        /\ ~arrIncludes(resp[1].body[1].details[1].audience, "Readers")

(***************************************************************************)
(* Properties of the page                                                  *)
(***************************************************************************)

\* The text has no character that is not white space.
WhiteSpaceOnly(t) == \A i \in 1..Len(t) : t[i] \in {" ", "\t", "\n", "\r"}

\* The step is a submission, by the button or by the keyboard.
Submission == ClickImprove \/ KeyImprove

\* No request is sent in the step.
NothingSent == fetches' = fetches /\ submitted' = submitted

ResultEmpty(page) ==
  /\ page.improved = <<>>
  /\ page.blueprint = <<>>
  /\ page.details = <<>>

FinalProjectMode(body) ==
  \/ test(projectPattern, LowerOf(truncatedOf(body)))
  \/ /\ "projectMode" \in DOMAIN mergedHintsCandidate(body)
     /\ mergedHintsCandidate(body).projectMode = JBool(TRUE)

\* C24 (as stated): the response to every request whose final projectMode is
\* true carries the blueprint, whatever its details flag.
C24_Original ==
  (req # <<>> /\ req[1].json /\ resp[1].status = 200 /\ FinalProjectMode(req[1].body)) =>
    /\ resp[1].body[1].details # <<>>
    /\ resp[1].body[1].details[1].blueprint # <<>>

\* How many requests of caller ip the log shows past the limiter at a time
\* from lo to hi, both included.
RECURSIVE admittedBetween(_, _, _, _)
admittedBetween(log, ip, lo, hi) ==
  IF Len(log) = 0 THEN 0
  ELSE (IF log[1].ip = ip /\ log[1].at >= lo /\ log[1].at <= hi THEN log[1].n ELSE 0)
       + admittedBetween(Tail(log), ip, lo, hi)

\* The stored count of every caller is between 1 and RATE_LIMIT, and it is
\* the number of requests admitted from the opening of the caller's window
\* to its resetAt.
CountsInWindow ==
  \A ip \in DOMAIN rateMap :
    /\ rateMap[ip].count >= 1
    /\ rateMap[ip].count <= RATE_LIMIT
    /\ rateMap[ip].count =
         admittedBetween(admits, ip, rateMap[ip].resetAt - RATE_WINDOW_MS,
                         rateMap[ip].resetAt)

\* What the limiter does with a request that passes requestSchema, as a
\* relation between the maps before and after: a caller without an entry, or
\* with one whose resetAt is before the arrival, gets a new window with
\* count 1; a caller with RATE_LIMIT admissions in a window that has not
\* ended is answered 429 with the resetAt of that window and the entry
\* stays; any other request adds one to the count of its window.  The
\* entries of other callers stay.
WindowStep ==
  (handled' = handled + 1 /\ requestSchema(req'[1].body)) =>
    \A ip \in {getClientIp(req'[1].headers)} :
      /\ \A other \in DOMAIN rateMap \ {ip} :
           other \in DOMAIN rateMap' /\ rateMap'[other] = rateMap[other]
      /\ DOMAIN rateMap' = DOMAIN rateMap \cup {ip}
      /\ (ip \notin DOMAIN rateMap) =>
           /\ rateMap'[ip] = [count |-> 1, resetAt |-> req'[1].at + RATE_WINDOW_MS]
           /\ resp'[1].status # 429
      /\ (ip \in DOMAIN rateMap) =>
           /\ req'[1].at > rateMap[ip].resetAt =>
                /\ rateMap'[ip] = [count |-> 1, resetAt |-> req'[1].at + RATE_WINDOW_MS]
                /\ resp'[1].status # 429
           /\ (req'[1].at <= rateMap[ip].resetAt /\ rateMap[ip].count >= RATE_LIMIT) =>
                /\ resp'[1].status = 429
                /\ resp'[1].resetAt = <<rateMap[ip].resetAt>>
                /\ rateMap'[ip] = rateMap[ip]
           /\ (req'[1].at <= rateMap[ip].resetAt /\ rateMap[ip].count < RATE_LIMIT) =>
                /\ rateMap'[ip] = [count |-> rateMap[ip].count + 1,
                                   resetAt |-> rateMap[ip].resetAt]
                /\ resp'[1].status # 429

counterOf(rl, ip) == IF ip \in DOMAIN rl THEN rl[ip].count ELSE 0

\* The response is the 400 of requestSchema or the 429 of the limiter.
RejectedEarly(response) ==
  \/ response.status = 400 /\ response.error = "Invalid request"
  \/ response.status = 429

\* C26 (as stated): a request rejected with 400 for an invalid body and a
\* request rejected with 429 leave the counter of the caller and the cache
\* unchanged; every other request, one answered from the cache and one
\* rejected with 400 for invalid hints included, adds exactly one to the
\* counter of the caller; a 400 or a 429 never writes a cache entry.
C26_Original ==
  [][(handled' = handled + 1) =>
       \A ip \in {getClientIp(req'[1].headers)} :
         /\ RejectedEarly(resp'[1]) => (rateMap' = rateMap /\ cache' = cache)
         /\ ~RejectedEarly(resp'[1]) =>
              counterOf(rateMap', ip) = counterOf(rateMap, ip) + 1
         /\ resp'[1].status \in {400, 429} => cache' = cache]_vars

\* C26 (amended): a request rejected with 400 for an invalid body and a
\* request rejected with 429 leave the limiter and the cache unchanged;
\* every other request, one answered from the cache and one rejected with
\* 400 for invalid hints included, is counted once and changes no other
\* caller's entry: it adds exactly one to the counter of the caller when the
\* caller has a window that has not ended, and otherwise it starts a window
\* with the counter at 1, whatever the counter was; a 400 or a 429 never
\* writes a cache entry.
C26_QuotaAccounting ==
  [][(handled' = handled + 1) =>
       \A ip \in {getClientIp(req'[1].headers)} :
         /\ RejectedEarly(resp'[1]) => (rateMap' = rateMap /\ cache' = cache)
         /\ ~RejectedEarly(resp'[1]) =>
              /\ \A other \in DOMAIN rateMap \ {ip} :
                   other \in DOMAIN rateMap' /\ rateMap'[other] = rateMap[other]
              /\ (ip \in DOMAIN rateMap /\ req'[1].at <= rateMap[ip].resetAt) =>
                   /\ rateMap'[ip].count = rateMap[ip].count + 1
                   /\ rateMap'[ip].resetAt = rateMap[ip].resetAt
              /\ ~(ip \in DOMAIN rateMap /\ req'[1].at <= rateMap[ip].resetAt) =>
                   /\ rateMap'[ip].count = 1
                   /\ rateMap'[ip].resetAt = req'[1].at + RATE_WINDOW_MS
         /\ resp'[1].status \in {400, 429} => cache' = cache]_vars

\* C26 witness: a request with invalid hints was answered 400 and took the
\* last admission of the caller's window, the cache staying empty.
C26_Witness ==
  /\ req # <<>> /\ req[1].json
  /\ resp[1].status = 400 /\ resp[1].error = "Invalid hints"
  /\ admits[1].n = RATE_LIMIT - 1
  /\ rateMap[getClientIp(req[1].headers)].count = RATE_LIMIT
  /\ cache = EmptyObject

\* C27 (as stated): at most one improve request is in flight at any time.
C27_Original == Len(fetches) <= 1

\* A call of handleImprove ends in its catch block in the step.
FailedSettle ==
  \E i \in 1..Len(fetches) : \E outcome \in Outcomes(fetches[i].payload) :
    ~succeeds(outcome) /\ Settle(i, outcome)

\* C28 (as stated): every submission first clears the error, the improved
\* text, the blueprint, the processing time and the details; when the
\* request then fails the error message is set and the improved text, the
\* blueprint and the details are empty, so that a failed submission never
\* shows the result of an earlier one.
C28_Original ==
  [][/\ (Submission /\ submitted' = submitted + 1) =>
          (ui'.error = <<>> /\ ui'.processingMs = <<>> /\ ResultEmpty(ui'))
     /\ FailedSettle => (ui'.error # <<>> /\ ResultEmpty(ui'))]_vars

(***************************************************************************)
(* Properties of the fallback values                                       *)
(***************************************************************************)

\* The fields that have a fallback, and the fallback of each.
FallbackOf ==
  [ audience   |-> <<"Prospective customers and early adopters">>,
    tone       |-> <<"friendly", "confident", "concise">>,
    industries |-> <<"General">>,
    regions    |-> <<"Global">> ]

\* For every modelled text, computed once: the fields for which no keyword
\* or pattern matches its lower-cased form.
Unmatched ==
  [t \in Texts |-> {f \in DOMAIN FallbackOf : Signals[LowerOf(t)][f] = <<>>}]

\* The entries of list that are not empty and not in seen, each once, in
\* the order of their first occurrence.
RECURSIVE NewEntries(_, _)
NewEntries(list, seen) ==
  IF list = <<>> THEN <<>>
  ELSE IF Head(list) = "" \/ Head(list) \in seen THEN NewEntries(Tail(list), seen)
  ELSE <<Head(list)>> \o NewEntries(Tail(list), seen \cup {Head(list)})

\* C29: the fallback of a field is decided from the text alone: when no
\* audience keyword, tone keyword, industry pattern or region pattern
\* matches, the field of the result starts with its fallback, whether or not
\* the hints have entries for the field, and the entries of the hints that
\* are new follow the fallback in their order.
C29_FallbackFirst ==
  out # <<>> =>
    \A f \in Unmatched[rawArg] :
      D[f] = FallbackOf[f]
               \o NewEntries(IF f \in DOMAIN hintsArg THEN hintsArg[f] ELSE <<>>,
                             Entries(FallbackOf[f]))

\* C29 witness: a text without a region pattern was improved with a region
\* hint, and the regions are the fallback followed by the hint.
C29_Witness ==
  /\ out # <<>>
  /\ "regions" \in Unmatched[rawArg]
  /\ "regions" \in DOMAIN hintsArg /\ hintsArg.regions = <<"Egypt">>
  /\ D.regions = <<"Global", "Egypt">>

=============================================================================
